---- MODULE Spec2Model ----
(***************************************************************************)
(* Minko: shapes built from vector primitives, their rasterised            *)
(* Minkowski-style sum, the similarity check against a target, the         *)
(* grid-snap engine and the click-driven builder.                          *)
(*                                                                         *)
(* Numbers.  Every coordinate the program computes from integer pointer    *)
(* positions lies in Q(sqrt 3) (the triangular lattice multiplies by       *)
(* sqrt(3)/2 and 2/sqrt(3)).  A number is the pair <<a, b>> standing for   *)
(* (a + b*sqrt(3)) / 12, which is exact and unique, so `===` on numbers is *)
(* equality of pairs.  Floating-point rounding error is not modelled.      *)
(***************************************************************************)
EXTENDS Integers, Sequences, FiniteSets, TLC

VARIABLES
  pathRef,            \* Shape -> the array its `path` field refers to
  arrays,             \* array -> its elements (the primitives, in order)
  isAlreadyCentered,  \* Shape -> its isAlreadyCentered field
  apiCall,            \* the last Shape method called directly, its arguments
                      \* and the receiver's path before the call
  snapGrid, snapSize, snapRaw, snapPrev, snapPt, snapN,
  stage, lastRenderStage, skipTutorial,
  leftEditable, rightEditable, sumEditable,
  leftGrid, rightGrid, sumGrid,
  building,           \* null, a point, a list of points or a grid name
  buildingSide, buildingWhat,
  hidden,             \* the elements that carry the class `hidden`
  nEvents,            \* events handled so far, mousemove apart
  run,                \* the canvas clicks handled since the last other event
  runBefore,          \* the slots and the pending state when that run began
  lastEvent,          \* the last event handled and the state it was handled in
  offscreen,          \* the bitmap of Shape.offscreen, the scratch surface
  drawnAB, drawnBA,   \* what sum drew on a cleared surface, in each order
  lastRaster          \* the last rasterising call and what it returned

heapVars == <<pathRef, arrays, isAlreadyCentered>>

pageVars == <<stage, lastRenderStage, skipTutorial,
              leftEditable, rightEditable, sumEditable,
              leftGrid, rightGrid, sumGrid,
              building, buildingSide, buildingWhat, hidden,
              nEvents, run, runBefore, lastEvent>>

rasterVars == <<offscreen, drawnAB, drawnBA, lastRaster>>

snapVars == <<snapGrid, snapSize, snapRaw, snapPrev, snapPt, snapN>>

vars == <<pathRef, arrays, isAlreadyCentered, apiCall,
          snapGrid, snapSize, snapRaw, snapPrev, snapPt, snapN,
          stage, lastRenderStage, skipTutorial,
          leftEditable, rightEditable, sumEditable,
          leftGrid, rightGrid, sumGrid,
          building, buildingSide, buildingWhat, hidden,
          nEvents, run, runBefore, lastEvent,
          offscreen, drawnAB, drawnBA, lastRaster>>

----------------------------------------------------------------------------
(* Exact arithmetic on numbers <<a, b>> = (a + b*sqrt 3)/12.               *)

Num(n) == <<12 * n, 0>>

Half(n) == <<6 * n, 0>>

NAdd(p, q) == <<p[1] + q[1], p[2] + q[2]>>

NSub(p, q) == <<p[1] - q[1], p[2] - q[2]>>

Abs(i) == IF i < 0 THEN -i ELSE i

RECURSIVE ISqrtIn(_, _, _)
(* The largest k in lo..hi with k*k <= n, by bisection (lo*lo <= n).       *)
ISqrtIn(n, lo, hi) ==
  IF lo >= hi THEN lo
  ELSE LET mid == (lo + hi + 1) \div 2
       IN  IF mid * mid <= n THEN ISqrtIn(n, mid, hi) ELSE ISqrtIn(n, lo, mid - 1)

ISqrt(n) == ISqrtIn(n, 0, 46340)

(* floor(b * sqrt 3) for an integer b: 3*b*b is a square only for b = 0.   *)
FloorSqrt3(b) ==
  IF b >= 0 THEN ISqrt(3 * b * b) ELSE -(ISqrt(3 * b * b) + 1)

(* Math.round(p / d) for a number p and a positive integer d:              *)
(* floor(p/d + 1/2) = floor((a + 6d + floor(b*sqrt 3)) / (12d)).           *)
RoundDiv(p, d) == (p[1] + 6 * d + FloorSqrt3(p[2])) \div (12 * d)

(* -1, 0 or 1 as the number p is negative, zero or positive.               *)
NSign(p) ==
  LET a == p[1]
      b == p[2]
  IN  IF a >= 0 /\ b >= 0 THEN (IF a = 0 /\ b = 0 THEN 0 ELSE 1)
      ELSE IF a <= 0 /\ b <= 0 THEN -1
      ELSE IF a > 0 THEN (IF a * a > 3 * b * b THEN 1 ELSE -1)
      ELSE (IF 3 * b * b > a * a THEN 1 ELSE -1)

NLeq(p, q) == NSign(NSub(p, q)) <= 0

NAbs(p) == IF NSign(p) < 0 THEN <<-p[1], -p[2]>> ELSE p

----------------------------------------------------------------------------
(* Grid / snap engine.                                                     *)

gridUnit == 40

Grids == {"square", "triangle", "fine-square", "fine-triangle"}

gridSize(g) ==
  CASE g \in {"square", "triangle"} -> gridUnit
    [] g \in {"fine-square", "fine-triangle"} -> gridUnit \div 2

(* Math.round((pos - size / 2) / gridSize) * gridUnit + size / 2           *)
snapCoord(pos, size, gSize) ==
  NAdd(Num(RoundDiv(NSub(pos, Half(size)), gSize) * gridUnit), Half(size))

(* The triangular branch: x1 = sqrt(3)/2 * xr - yr/2, y1 = yr, both        *)
(* rounded to the lattice spacing, then x2 = (2*xs + ys)/sqrt 3, y2 = ys.  *)
snapTriangle(x, y, width, height, g) ==
  LET xr == NSub(x, Half(width))
      yr == NSub(y, Half(height))
      x1 == <<(3 * xr[2] - yr[1]) \div 2, (xr[1] - yr[2]) \div 2>>
      y1 == yr
      xs == RoundDiv(x1, gridSize(g)) * gridSize(g)
      ys == RoundDiv(y1, gridSize(g)) * gridSize(g)
      x2 == <<0, 4 * (2 * xs + ys)>>
      y2 == Num(ys)
  IN  <<NAdd(x2, Half(width)), NAdd(y2, Half(height))>>

snap(x, y, width, height, g) ==
  CASE g \in {"square", "fine-square"} ->
         <<snapCoord(x, width, gridSize(g)), snapCoord(y, height, gridSize(g))>>
    [] g \in {"triangle", "fine-triangle"} ->
         snapTriangle(x, y, width, height, g)

----------------------------------------------------------------------------
(* Primitives and Shape.                                                   *)
(*                                                                         *)
(* A radius is [d2, off]: the length sqrt(d2 / 144) + off * 1e-7, with d2  *)
(* a number (so Math.hypot of two numbers is exact) and off an integer     *)
(* count of 1e-7 units, which lets a radius lie within or outside the      *)
(* 1e-6 tolerance of erasePoint.  Two lengths with different d2 are taken  *)
(* to differ by more than the tolerance: on the coordinates of this model  *)
(* distinct distances differ by at least 1e-2.                             *)

(* r + k * gridUnit / sqrt 3                                               *)
NumS(r, k) == <<12 * r, 4 * k * gridUnit>>

NSq(p) == <<p[1] * p[1] + 3 * p[2] * p[2], 2 * p[1] * p[2]>>

Radius(n) == [d2 |-> <<144 * n * n, 0>>, off |-> 0]

RadiusOff(n, k) == [d2 |-> <<144 * n * n, 0>>, off |-> k]

hypot(dx, dy) == [d2 |-> NAdd(NSq(dx), NSq(dy)), off |-> 0]

(* 1e-6, in units of 1e-7 *)
EraseTolerance == 10

(* Math.abs(h - r) < 1e-6 *)
WithinTolerance(h, r) == h.d2 = r.d2 /\ Abs(h.off - r.off) < EraseTolerance

leftShape == <<"slot", 0>>

rightShape == <<"slot", 1>>

sumShape == <<"slot", 2>>

SlotShapes == {leftShape, rightShape, sumShape}

(* The level script.  A Shape of the script is named by its field and the  *)
(* index of its stage; a Path2D is named by its order in the script.       *)

Stages ==
  << [type |-> "tutorial-welcome"],
     [type |-> "show-level-bc", right |-> <<"right", 1>>, target |-> <<"target", 1>>],
     [type |-> "tutorial-confirm"],
     [type |-> "tutorial-place-object"],
     [type |-> "tutorial-place-object"],
     [type |-> "tutorial-confirm"],
     [type |-> "tutorial-complete-level"],
     [type |-> "show-level-bc", right |-> <<"right", 7>>, target |-> <<"target", 7>>],
     [type |-> "tutorial-select-tool", tool |-> "line"],
     [type |-> "tutorial-place-object"],
     [type |-> "tutorial-complete-level"],
     [type |-> "level-bc", right |-> <<"right", 11>>, target |-> <<"target", 11>>],
     [type |-> "show-level-bc", right |-> <<"right", 12>>, target |-> <<"target", 12>>],
     [type |-> "tutorial-select-tool", tool |-> "polygon"],
     [type |-> "tutorial-place-object"],
     [type |-> "tutorial-complete-level"],
     [type |-> "level-bc", right |-> <<"right", 16>>, target |-> <<"target", 16>>],
     [type |-> "level-bc", right |-> <<"right", 17>>, target |-> <<"target", 17>>],
     [type |-> "level-bc", right |-> <<"right", 18>>, target |-> <<"target", 18>>],
     [type |-> "show-level-ab", left |-> <<"left", 19>>, right |-> <<"right", 19>>],
     [type |-> "tutorial-complete-level"],
     [type |-> "level-ab", left |-> <<"left", 21>>, right |-> <<"right", 21>>],
     [type |-> "level-ab", left |-> <<"left", 22>>, right |-> <<"right", 22>>],
     [type |-> "level-ab", left |-> <<"left", 23>>, right |-> <<"right", 23>>],
     [type |-> "show-level-bc", grid |-> "triangle", right |-> <<"right", 24>>, target |-> <<"target", 24>>],
     [type |-> "tutorial-complete-level"],
     [type |-> "show-level-bc", grid |-> "triangle", right |-> <<"right", 26>>, target |-> <<"target", 26>>],
     [type |-> "level-ab", grid |-> "fine-triangle", left |-> <<"left", 27>>, right |-> <<"right", 27>>],
     [type |-> "win", shape |-> <<"shape", 28>>] >>

LevelShapeIds ==
  { <<"right", 1>>,
    <<"target", 1>>,
    <<"right", 7>>,
    <<"target", 7>>,
    <<"right", 11>>,
    <<"target", 11>>,
    <<"right", 12>>,
    <<"target", 12>>,
    <<"right", 16>>,
    <<"target", 16>>,
    <<"right", 17>>,
    <<"target", 17>>,
    <<"right", 18>>,
    <<"target", 18>>,
    <<"left", 19>>,
    <<"right", 19>>,
    <<"left", 21>>,
    <<"right", 21>>,
    <<"left", 22>>,
    <<"right", 22>>,
    <<"left", 23>>,
    <<"right", 23>>,
    <<"right", 24>>,
    <<"target", 24>>,
    <<"right", 26>>,
    <<"target", 26>>,
    <<"left", 27>>,
    <<"right", 27>>,
    <<"shape", 28>> }

LevelCentered ==
  { <<"left", 22>>, <<"right", 22>>, <<"left", 23>>, <<"right", 23>>, <<"right", 24>>, <<"right", 26>>, <<"target", 26>>, <<"left", 27>>, <<"right", 27>> }

LevelPath(s) ==
  CASE s = <<"right", 1>> ->
         << [type |-> "polygon", points |-> <<<<Num(180), Num(130)>>, <<Num(220), Num(130)>>, <<Num(220), Num(170)>>, <<Num(180), Num(170)>>>>] >>
    [] s = <<"target", 1>> ->
         << [type |-> "polygon", points |-> <<<<Num(0), Num(0)>>, <<Num(0), Num(40)>>, <<Num(40), Num(40)>>, <<Num(40), Num(0)>>>>],
            [type |-> "polygon", points |-> <<<<Num(80), Num(0)>>, <<Num(80), Num(40)>>, <<Num(120), Num(40)>>, <<Num(120), Num(0)>>>>],
            [type |-> "polygon", points |-> <<<<Num(80), Num(80)>>, <<Num(80), Num(120)>>, <<Num(120), Num(120)>>, <<Num(120), Num(80)>>>>],
            [type |-> "polygon", points |-> <<<<Num(0), Num(80)>>, <<Num(0), Num(120)>>, <<Num(40), Num(120)>>, <<Num(40), Num(80)>>>>],
            [type |-> "polygon", points |-> <<<<Num(40), Num(40)>>, <<Num(40), Num(80)>>, <<Num(80), Num(80)>>, <<Num(80), Num(40)>>>>] >>
    [] s = <<"right", 7>> ->
         << [type |-> "circle", cx |-> Num(200), cy |-> Num(150), radius |-> Radius(40)] >>
    [] s = <<"target", 7>> ->
         << [type |-> "dom-path", path |-> 1] >>
    [] s = <<"right", 11>> ->
         << [type |-> "line", x1 |-> Num(160), y1 |-> Num(150), x2 |-> Num(240), y2 |-> Num(150)] >>
    [] s = <<"target", 11>> ->
         << [type |-> "polygon", points |-> <<<<Num(40), Num(0)>>, <<Num(120), Num(0)>>, <<Num(80), Num(80)>>, <<Num(0), Num(80)>>>>] >>
    [] s = <<"right", 12>> ->
         << [type |-> "point", x |-> Num(240), y |-> Num(110)],
            [type |-> "point", x |-> Num(160), y |-> Num(190)] >>
    [] s = <<"target", 12>> ->
         << [type |-> "polygon", points |-> <<<<Num(80), Num(0)>>, <<Num(120), Num(0)>>, <<Num(120), Num(80)>>, <<Num(160), Num(80)>>, <<Num(160), Num(40)>>, <<Num(80), Num(40)>>>>],
            [type |-> "polygon", points |-> <<<<Num(0), Num(80)>>, <<Num(40), Num(80)>>, <<Num(40), Num(160)>>, <<Num(80), Num(160)>>, <<Num(80), Num(120)>>, <<Num(0), Num(120)>>>>] >>
    [] s = <<"right", 16>> ->
         << [type |-> "polygon", points |-> <<<<Num(190), Num(140)>>, <<Num(210), Num(140)>>, <<Num(210), Num(160)>>, <<Num(190), Num(160)>>>>] >>
    [] s = <<"target", 16>> ->
         << [type |-> "dom-path", path |-> 2] >>
    [] s = <<"right", 17>> ->
         << [type |-> "circle", cx |-> Num(200), cy |-> Num(150), radius |-> Radius(10)] >>
    [] s = <<"target", 17>> ->
         << [type |-> "dom-path", path |-> 3] >>
    [] s = <<"right", 18>> ->
         << [type |-> "polygon", points |-> <<<<Num(140), Num(190)>>, <<Num(220), Num(110)>>, <<Num(260), Num(190)>>>>] >>
    [] s = <<"target", 18>> ->
         << [type |-> "polygon", points |-> <<<<Num(0), Num(160)>>, <<Num(160), Num(0)>>, <<Num(240), Num(160)>>>>] >>
    [] s = <<"left", 19>> ->
         << [type |-> "polygon", points |-> <<<<Num(180), Num(130)>>, <<Num(220), Num(130)>>, <<Num(220), Num(170)>>, <<Num(180), Num(170)>>>>] >>
    [] s = <<"right", 19>> ->
         << [type |-> "polygon", points |-> <<<<Num(180), Num(130)>>, <<Num(220), Num(130)>>, <<Num(220), Num(170)>>, <<Num(180), Num(170)>>>>] >>
    [] s = <<"left", 21>> ->
         << [type |-> "polygon", points |-> <<<<Num(0), Num(80)>>, <<Num(40), Num(0)>>, <<Num(80), Num(80)>>>>] >>
    [] s = <<"right", 21>> ->
         << [type |-> "polygon", points |-> <<<<Num(0), Num(0)>>, <<Num(40), Num(80)>>, <<Num(80), Num(0)>>>>] >>
    [] s = <<"left", 22>> ->
         << [type |-> "polygon", points |-> <<<<Num(120), Num(110)>>, <<Num(280), Num(110)>>, <<Num(280), Num(190)>>, <<Num(240), Num(190)>>, <<Num(240), Num(150)>>, <<Num(160), Num(150)>>, <<Num(160), Num(190)>>, <<Num(120), Num(190)>>>>] >>
    [] s = <<"right", 22>> ->
         << [type |-> "polygon", points |-> <<<<Num(120), Num(190)>>, <<Num(280), Num(190)>>, <<Num(280), Num(110)>>, <<Num(240), Num(110)>>, <<Num(240), Num(150)>>, <<Num(160), Num(150)>>, <<Num(160), Num(110)>>, <<Num(120), Num(110)>>>>] >>
    [] s = <<"left", 23>> ->
         << [type |-> "polygon", points |-> <<<<Num(120), Num(110)>>, <<Num(280), Num(110)>>, <<Num(280), Num(190)>>, <<Num(240), Num(190)>>, <<Num(240), Num(150)>>, <<Num(160), Num(150)>>, <<Num(160), Num(190)>>, <<Num(120), Num(190)>>>>] >>
    [] s = <<"right", 23>> ->
         << [type |-> "polygon", points |-> <<<<Num(120), Num(110)>>, <<Num(280), Num(110)>>, <<Num(280), Num(190)>>, <<Num(240), Num(190)>>, <<Num(240), Num(150)>>, <<Num(160), Num(150)>>, <<Num(160), Num(190)>>, <<Num(120), Num(190)>>>>] >>
    [] s = <<"right", 24>> ->
         << [type |-> "polygon", points |-> <<<<NumS(200, -2), Num(150)>>, <<Num(200), Num(230)>>, <<NumS(200, 2), Num(150)>>>>] >>
    [] s = <<"target", 24>> ->
         << [type |-> "polygon", points |-> <<<<NumS(0, 2), Num(0)>>, <<NumS(0, 6), Num(0)>>, <<NumS(0, 8), Num(80)>>, <<NumS(0, 6), Num(160)>>, <<NumS(0, 2), Num(160)>>, <<Num(0), Num(80)>>>>] >>
    [] s = <<"right", 26>> ->
         << [type |-> "point", x |-> NumS(200, -2), y |-> Num(150)],
            [type |-> "point", x |-> NumS(200, 2), y |-> Num(150)],
            [type |-> "point", x |-> Num(200), y |-> Num(70)] >>
    [] s = <<"target", 26>> ->
         << [type |-> "polygon", points |-> <<<<NumS(200, -4), Num(230)>>, <<NumS(200, -3), Num(190)>>, <<NumS(200, -2), Num(230)>>>>],
            [type |-> "polygon", points |-> <<<<NumS(200, -2), Num(230)>>, <<NumS(200, -1), Num(190)>>, <<Num(200), Num(230)>>>>],
            [type |-> "polygon", points |-> <<<<Num(200), Num(230)>>, <<NumS(200, 1), Num(190)>>, <<NumS(200, 2), Num(230)>>>>],
            [type |-> "polygon", points |-> <<<<NumS(200, 2), Num(230)>>, <<NumS(200, 3), Num(190)>>, <<NumS(200, 4), Num(230)>>>>],
            [type |-> "polygon", points |-> <<<<NumS(200, -3), Num(190)>>, <<NumS(200, -2), Num(150)>>, <<NumS(200, -1), Num(190)>>>>],
            [type |-> "polygon", points |-> <<<<NumS(200, 1), Num(190)>>, <<NumS(200, 2), Num(150)>>, <<NumS(200, 3), Num(190)>>>>],
            [type |-> "polygon", points |-> <<<<NumS(200, -2), Num(150)>>, <<NumS(200, -1), Num(110)>>, <<Num(200), Num(150)>>>>],
            [type |-> "polygon", points |-> <<<<Num(200), Num(150)>>, <<NumS(200, 1), Num(110)>>, <<NumS(200, 2), Num(150)>>>>],
            [type |-> "polygon", points |-> <<<<NumS(200, -1), Num(110)>>, <<Num(200), Num(70)>>, <<NumS(200, 1), Num(110)>>>>] >>
    [] s = <<"left", 27>> ->
         << [type |-> "polygon", points |-> <<<<NumS(200, -1), Num(190)>>, <<Num(200), Num(150)>>, <<NumS(200, 1), Num(190)>>>>] >>
    [] s = <<"right", 27>> ->
         << [type |-> "polygon", points |-> <<<<NumS(200, -1), Num(270)>>, <<Num(200), Num(70)>>, <<NumS(200, 1), Num(270)>>>>] >>
    [] s = <<"shape", 28>> ->
         << [type |-> "dom-path", path |-> 4] >>

ShapeIds == SlotShapes \cup LevelShapeIds

(* An array holds references to primitive objects.  The primitives of the  *)
(* script are objects made once, which copy pushes as they are: each is    *)
(* named by its Shape and its index there.  No code writes a field of a    *)
(* primitive, so a primitive made by a click is held by its value.         *)
LevelRefs(s) == [k \in 1..Len(LevelPath(s)) |-> [ref |-> s, k |-> k]]

Deref(e) == IF "ref" \in DOMAIN e THEN LevelPath(e.ref)[e.k] ELSE e

(* The heap as one value, for the methods below.                           *)
Heap == [pathRef |-> pathRef, arrays |-> arrays,
         isAlreadyCentered |-> isAlreadyCentered]

PathOf(h, s) == h.arrays[h.pathRef[s]]

SetPath(h, s, p) == [h EXCEPT !.arrays[h.pathRef[s]] = p]

(* this.path.splice(0, this.path.length) *)
clear(h, s) == SetPath(h, s, <<>>)

(* copy that takes over the array of `that` instead of its elements.       *)
copyShared(h, this, that) ==
  [h EXCEPT !.pathRef[this] = h.pathRef[that],
            !.isAlreadyCentered[this] = h.isAlreadyCentered[that]]

(* this.path.push(...that.path); this.isAlreadyCentered = that.isAlreadyCentered *)
copy(h, this, that) ==
  [SetPath(h, this, PathOf(h, this) \o PathOf(h, that))
     EXCEPT !.isAlreadyCentered[this] = h.isAlreadyCentered[that]]

(* eraseKeep with a Line matched at its first endpoint only.               *)
eraseKeepFirstEnd(path, x, y) ==
  LET p == Deref(path)
  IN
    CASE p.type = "point" ->
           IF p.x = x /\ p.y = y THEN <<>> ELSE <<path>>
      [] p.type = "line" ->
           IF p.x1 = x /\ p.y1 = y THEN <<>> ELSE <<path>>
      [] p.type = "polygon" ->
           IF \E i \in 1..Len(p.points) :
                 p.points[i][1] = x /\ p.points[i][2] = y
           THEN <<>> ELSE <<path>>
      [] p.type = "circle" ->
           IF WithinTolerance(hypot(NSub(p.cx, x), NSub(p.cy, y)), p.radius)
           THEN <<>> ELSE <<path>>
      [] p.type = "dom-path" -> <<path>>

(* eraseKeep with a Point matched only when it is the first vertex of      *)
(* something else: a Point primitive is never removed.                     *)
eraseKeepNoPoint(path, x, y) ==
  LET p == Deref(path)
  IN
    CASE p.type = "point" -> <<path>>
      [] p.type = "line" ->
           IF (p.x1 = x /\ p.y1 = y) \/ (p.x2 = x /\ p.y2 = y)
           THEN <<>> ELSE <<path>>
      [] p.type = "polygon" ->
           IF \E i \in 1..Len(p.points) :
                 p.points[i][1] = x /\ p.points[i][2] = y
           THEN <<>> ELSE <<path>>
      [] p.type = "circle" ->
           IF WithinTolerance(hypot(NSub(p.cx, x), NSub(p.cy, y)), p.radius)
           THEN <<>> ELSE <<path>>
      [] p.type = "dom-path" -> <<path>>

(* The callback of flatMap: [] when the primitive matches, [path] if not.  *)
eraseKeep(path, x, y) ==
  LET p == Deref(path)
  IN
    CASE p.type = "point" ->
           IF p.x = x /\ p.y = y THEN <<>> ELSE <<path>>
      [] p.type = "line" ->
           IF (p.x1 = x /\ p.y1 = y) \/ (p.x2 = x /\ p.y2 = y)
           THEN <<>> ELSE <<path>>
      [] p.type = "polygon" ->
           IF \E i \in 1..Len(p.points) :
                 p.points[i][1] = x /\ p.points[i][2] = y
           THEN <<>> ELSE <<path>>
      [] p.type = "circle" ->
           IF WithinTolerance(hypot(NSub(p.cx, x), NSub(p.cy, y)), p.radius)
           THEN <<>> ELSE <<path>>
      [] p.type = "dom-path" -> <<path>>

RECURSIVE flatMapErase(_, _, _)
flatMapErase(oldPath, x, y) ==
  IF oldPath = <<>> THEN <<>>
  ELSE eraseKeep(Head(oldPath), x, y) \o flatMapErase(Tail(oldPath), x, y)

erasePoint(h, s, x, y) == SetPath(h, s, flatMapErase(PathOf(h, s), x, y))

line(h, s, x1, y1, x2, y2) ==
  SetPath(h, s, Append(PathOf(h, s),
     [type |-> "line", x1 |-> x1, y1 |-> y1, x2 |-> x2, y2 |-> y2]))

point(h, s, x, y) ==
  SetPath(h, s, Append(PathOf(h, s), [type |-> "point", x |-> x, y |-> y]))

polygon(h, s, points) ==
  SetPath(h, s, Append(PathOf(h, s), [type |-> "polygon", points |-> points]))

circle(h, s, cx, cy, radius) ==
  SetPath(h, s, Append(PathOf(h, s),
     [type |-> "circle", cx |-> cx, cy |-> cy, radius |-> radius]))

domPath(h, s, path) ==
  SetPath(h, s, Append(PathOf(h, s), [type |-> "dom-path", path |-> path]))

----------------------------------------------------------------------------
HeapBecomes(h) ==
  /\ pathRef' = h.pathRef
  /\ arrays' = h.arrays
  /\ isAlreadyCentered' = h.isAlreadyCentered

----------------------------------------------------------------------------
(* The editing canvases are 400 x 300 (their centre is (5, 3.75) grid      *)
(* units in the level script).                                             *)

CanvasW == 400

CanvasH == 300

ApiIdle == apiCall = [op |-> "none"]

SnapIdle ==
  /\ snapGrid = "square"
  /\ snapSize = <<CanvasW, CanvasH>>
  /\ snapRaw = <<Num(0), Num(0)>>
  /\ snapPrev = <<Num(0), Num(0)>>
  /\ snapPt = <<Num(0), Num(0)>>
  /\ snapN = 0

----------------------------------------------------------------------------
(* The page: the module-level `let` variables, the `hidden` class of the   *)
(* elements whose visibility gates an event, and the event handlers.  A    *)
(* handler is a function from the state before the event to the state      *)
(* after it, so that a handler that renders twice is one step.             *)

Null == [kind |-> "null"]

Tools == {"point", "line", "circle", "polygon", "eraser"}

(* The state as one value.  `threw` is set when the handler has thrown,    *)
(* which ends it: what it did before the throw stays done.                 *)
Ui ==
  [pathRef |-> pathRef, arrays |-> arrays, isAlreadyCentered |-> isAlreadyCentered,
   stage |-> stage, lastRenderStage |-> lastRenderStage, skipTutorial |-> skipTutorial,
   leftEditable |-> leftEditable, rightEditable |-> rightEditable,
   sumEditable |-> sumEditable,
   leftGrid |-> leftGrid, rightGrid |-> rightGrid, sumGrid |-> sumGrid,
   building |-> building, buildingSide |-> buildingSide, buildingWhat |-> buildingWhat,
   hidden |-> hidden, threw |-> FALSE]

(* The state becomes `after` (evaluated once).                              *)
Becomes(after) ==
  \E st \in {after} :
    /\ HeapBecomes(st)
    /\ stage' = st.stage
    /\ lastRenderStage' = st.lastRenderStage
    /\ skipTutorial' = st.skipTutorial
    /\ leftEditable' = st.leftEditable
    /\ rightEditable' = st.rightEditable
    /\ sumEditable' = st.sumEditable
    /\ leftGrid' = st.leftGrid
    /\ rightGrid' = st.rightGrid
    /\ sumGrid' = st.sumGrid
    /\ building' = st.building
    /\ buildingSide' = st.buildingSide
    /\ buildingWhat' = st.buildingWhat
    /\ hidden' = st.hidden

(* stages[stage], or undefined past the end of the array *)
StageAt(i) == IF i \in 0..(Len(Stages) - 1) THEN Stages[i + 1] ELSE [type |-> "undefined"]

TutorialTypes ==
  {"tutorial-welcome", "tutorial-confirm", "tutorial-select-tool",
   "tutorial-place-object", "tutorial-complete-level"}

(* st.grid ?? 'square' *)
StageGrid(sg) == IF "grid" \in DOMAIN sg THEN sg.grid ELSE "square"

hide(st, el) == [st EXCEPT !.hidden = @ \cup {el}]

show(st, el) == [st EXCEPT !.hidden = @ \ {el}]

(* The `if (lastRenderStage !== stage)` block of render.                   *)
stageChanged(st) ==
  LET sg == StageAt(st.stage)
      s1 == hide([st EXCEPT !.lastRenderStage = st.stage], "grids")
  IN  CASE sg.type = "undefined" -> [s1 EXCEPT !.threw = TRUE]
        [] sg.type \in TutorialTypes ->
             IF s1.skipTutorial /\ sg.type # "tutorial-complete-level"
             THEN [s1 EXCEPT !.stage = @ + 1]
             ELSE IF sg.type = "tutorial-welcome"
                  THEN show(s1, "skipTutorialButton")
                  ELSE hide(s1, "skipTutorialButton")
        [] sg.type \in {"show-level-bc", "level-bc"} ->
             LET s2 == copy(clear(s1, rightShape), rightShape, sg.right)
                 s3 == copy(clear(s2, sumShape), sumShape, sg.target)
             IN  [s3 EXCEPT !.leftEditable = TRUE, !.rightEditable = FALSE,
                            !.sumEditable = FALSE,
                            !.leftGrid = StageGrid(sg), !.rightGrid = StageGrid(sg),
                            !.sumGrid = StageGrid(sg),
                            !.stage = IF sg.type = "show-level-bc" THEN @ + 1 ELSE @]
        [] sg.type \in {"show-level-ab", "level-ab"} ->
             LET s2 == copy(clear(s1, leftShape), leftShape, sg.left)
                 s3 == copy(clear(s2, rightShape), rightShape, sg.right)
             IN  [s3 EXCEPT !.leftEditable = FALSE, !.rightEditable = FALSE,
                            !.sumEditable = TRUE,
                            !.leftGrid = StageGrid(sg), !.rightGrid = StageGrid(sg),
                            !.sumGrid = StageGrid(sg),
                            !.stage = IF sg.type = "show-level-ab" THEN @ + 1 ELSE @]
        [] sg.type = "win" ->
             LET s2 == hide(s1, "skipTutorialButton")
                 s3 == copy(clear(s2, leftShape), leftShape, sg.shape)
                 s4 == copy(clear(s3, rightShape), rightShape, sg.shape)
                 s5 == clear(s4, sumShape)
             IN  [s5 EXCEPT !.leftEditable = FALSE, !.rightEditable = FALSE,
                            !.sumEditable = FALSE]

(* compare(leftShape, rightShape, sumShape) can return true only when the  *)
(* target has a pixel (targetC > 0) and the sum has one, and the sum has   *)
(* none unless both operands have a primitive.  Whether it does return     *)
(* true then is the caller's `pass`.  Its only effect is to show the       *)
(* next-level button, which nothing hides again before the handler ends,   *)
(* so one `pass` for all the renders of a handler gives every outcome.     *)
MayPass(st) ==
  /\ PathOf(st, leftShape) # <<>>
  /\ PathOf(st, rightShape) # <<>>
  /\ PathOf(st, sumShape) # <<>>

(* The preview of the pending points spreads building[0]: a TypeError for  *)
(* an empty list.                                                          *)
PreviewThrows(st) ==
  /\ st.buildingWhat = "polygon"
  /\ st.building.kind = "list"
  /\ st.building.pts = <<>>

render(st, pass) ==
  IF st.threw THEN st
  ELSE LET s1 == IF st.lastRenderStage # st.stage THEN stageChanged(st) ELSE st
       IN  IF s1.threw THEN s1
           ELSE IF PreviewThrows(s1) THEN [s1 EXCEPT !.threw = TRUE]
           ELSE IF pass /\ MayPass(s1) THEN show(s1, "nextLevelButton")
           ELSE s1

advanceCommon(st, pass) == render([st EXCEPT !.stage = @ + 1], pass)

advanceConfirm(st, pass) ==
  IF st.threw THEN st
  ELSE IF StageAt(st.stage).type = "undefined" THEN [st EXCEPT !.threw = TRUE]
  ELSE IF StageAt(st.stage).type \in {"tutorial-confirm", "tutorial-welcome"}
       THEN advanceCommon(st, pass)
       ELSE st

advanceSelectTool(st, tool, pass) ==
  IF st.threw THEN st
  ELSE IF StageAt(st.stage).type = "undefined" THEN [st EXCEPT !.threw = TRUE]
  ELSE IF StageAt(st.stage).type = "tutorial-select-tool" /\ StageAt(st.stage).tool = tool
       THEN advanceCommon(st, pass)
       ELSE st

advancePlaceObject(st, pass) ==
  IF st.threw THEN st
  ELSE IF StageAt(st.stage).type = "undefined" THEN [st EXCEPT !.threw = TRUE]
  ELSE IF StageAt(st.stage).type = "tutorial-place-object"
       THEN advanceCommon(st, pass)
       ELSE st

RECURSIVE advanceCompleteLevel(_, _)
advanceCompleteLevel(st, pass) ==
  IF st.threw THEN st
  ELSE IF StageAt(st.stage).type = "undefined" THEN [st EXCEPT !.threw = TRUE]
  ELSE IF StageAt(st.stage).type \in {"tutorial-complete-level", "level-bc", "level-ab"}
       THEN advanceCommon(clear(clear(clear(st, leftShape), rightShape), sumShape), pass)
       ELSE advanceCompleteLevel([st EXCEPT !.stage = @ + 1], pass)

Sides == {0, 1, 2}

shapeOf(side) == CASE side = 0 -> leftShape [] side = 1 -> rightShape [] side = 2 -> sumShape

clickable(st, side) ==
  CASE side = 0 -> st.leftEditable [] side = 1 -> st.rightEditable [] side = 2 -> st.sumEditable

gridOf(st, side) ==
  CASE side = 0 -> st.leftGrid [] side = 1 -> st.rightGrid [] side = 2 -> st.sumGrid

setGrid(st, side, g) ==
  CASE side = 0 -> [st EXCEPT !.leftGrid = g]
    [] side = 1 -> [st EXCEPT !.rightGrid = g]
    [] side = 2 -> [st EXCEPT !.sumGrid = g]

(* The index of the first pending vertex equal to pt, 0 when there is none *)
(* (indices from 1 here, from 0 in the code).                              *)
FirstEqual(pts, pt) ==
  IF \E i \in DOMAIN pts : pts[i] = pt
  THEN CHOOSE i \in DOMAIN pts : pts[i] = pt /\ \A j \in 1..(i - 1) : pts[j] # pt
  ELSE 0

(* building.splice(idx, 1) *)
Splice1(pts, i) == SubSeq(pts, 1, i - 1) \o SubSeq(pts, i + 1, Len(pts))

(* The polygon case with the pending list closed by a click on its last    *)
(* vertex, and any other pending vertex removed by a click on it.          *)
clickPolygonCloseAtLast(st, side, pt, pass) ==
  LET s1 == IF st.building = Null \/ st.buildingSide # side
            THEN [st EXCEPT !.building = [kind |-> "list", pts |-> <<>>],
                            !.buildingSide = side]
            ELSE st
      idx == FirstEqual(s1.building.pts, pt)
  IN  IF idx >= 1 /\ idx = Len(s1.building.pts)
      THEN advancePlaceObject(
             [polygon(s1, shapeOf(side), s1.building.pts) EXCEPT !.building = Null], pass)
      ELSE IF idx >= 1
      THEN [s1 EXCEPT !.building.pts = Splice1(@, idx)]
      ELSE [s1 EXCEPT !.building.pts = Append(@, pt)]

(* The polygon case with a click on a pending vertex other than the first  *)
(* removing the last pending vertex.                                       *)
clickPolygonUndoLast(st, side, pt, pass) ==
  LET s1 == IF st.building = Null \/ st.buildingSide # side
            THEN [st EXCEPT !.building = [kind |-> "list", pts |-> <<>>],
                            !.buildingSide = side]
            ELSE st
      idx == FirstEqual(s1.building.pts, pt)
  IN  IF idx = 1
      THEN advancePlaceObject(
             [polygon(s1, shapeOf(side), s1.building.pts) EXCEPT !.building = Null], pass)
      ELSE IF idx > 1
      THEN [s1 EXCEPT !.building.pts = Splice1(@, Len(@))]
      ELSE [s1 EXCEPT !.building.pts = Append(@, pt)]

(* case 'polygon' of the click listener *)
(* The polygon case with a click on the first vertex removing it, as a     *)
(* click on a later vertex does.                                           *)
clickPolygonUndoFirst(st, side, pt, pass) ==
  LET s1 == IF st.building = Null \/ st.buildingSide # side
            THEN [st EXCEPT !.building = [kind |-> "list", pts |-> <<>>],
                            !.buildingSide = side]
            ELSE st
      idx == FirstEqual(s1.building.pts, pt)
  IN  IF idx >= 1
      THEN [s1 EXCEPT !.building.pts = Splice1(@, idx)]
      ELSE [s1 EXCEPT !.building.pts = Append(@, pt)]

clickPolygon(st, side, pt, pass) ==
  LET s1 == IF st.building = Null \/ st.buildingSide # side
            THEN [st EXCEPT !.building = [kind |-> "list", pts |-> <<>>],
                            !.buildingSide = side]
            ELSE st
      idx == FirstEqual(s1.building.pts, pt)
  IN  IF idx = 1
      THEN advancePlaceObject(
             [polygon(s1, shapeOf(side), s1.building.pts) EXCEPT !.building = Null], pass)
      ELSE IF idx > 1
      THEN [s1 EXCEPT !.building.pts = Splice1(@, idx)]
      ELSE [s1 EXCEPT !.building.pts = Append(@, pt)]

(* The line and circle cases with a second click on the pending point      *)
(* dropping it instead of committing.                                      *)
clickTwoPointCancelSame(st, side, pt, pass) ==
  LET s1 == IF st.buildingSide # side
            THEN [st EXCEPT !.building = Null, !.buildingSide = side]
            ELSE st
      b  == s1.building.pt
  IN  IF s1.building = Null
      THEN [s1 EXCEPT !.building = [kind |-> "point", pt |-> pt]]
      ELSE IF b = pt
      THEN [s1 EXCEPT !.building = Null]
      ELSE advancePlaceObject(
             [(IF s1.buildingWhat = "line"
               THEN line(s1, shapeOf(side), b[1], b[2], pt[1], pt[2])
               ELSE circle(s1, shapeOf(side), b[1], b[2],
                           hypot(NSub(b[1], pt[1]), NSub(b[2], pt[2]))))
                EXCEPT !.building = Null], pass)

(* case 'line' and case 'circle' of the click listener *)
(* The line and circle cases with the pending point kept when another     *)
(* slot is clicked.                                                        *)
clickTwoPointAnySlot(st, side, pt, pass) ==
  LET s1 == [st EXCEPT !.buildingSide = side]
      b  == s1.building.pt
  IN  IF s1.building = Null
      THEN [s1 EXCEPT !.building = [kind |-> "point", pt |-> pt]]
      ELSE advancePlaceObject(
             [(IF s1.buildingWhat = "line"
               THEN line(s1, shapeOf(side), b[1], b[2], pt[1], pt[2])
               ELSE circle(s1, shapeOf(side), b[1], b[2],
                           hypot(NSub(b[1], pt[1]), NSub(b[2], pt[2]))))
                EXCEPT !.building = Null], pass)

clickTwoPoint(st, side, pt, pass) ==
  LET s1 == IF st.buildingSide # side
            THEN [st EXCEPT !.building = Null, !.buildingSide = side]
            ELSE st
      b  == s1.building.pt
  IN  IF s1.building = Null
      THEN [s1 EXCEPT !.building = [kind |-> "point", pt |-> pt]]
      ELSE advancePlaceObject(
             [(IF s1.buildingWhat = "line"
               THEN line(s1, shapeOf(side), b[1], b[2], pt[1], pt[2])
               ELSE circle(s1, shapeOf(side), b[1], b[2],
                           hypot(NSub(b[1], pt[1]), NSub(b[2], pt[2]))))
                EXCEPT !.building = Null], pass)

(* The listener without its test of clickable().                           *)
makeClickListenerAnySlot(st, side, raw, pass) ==
  IF st.buildingWhat = "grid-selection"
  THEN render(setGrid(st, side, st.building.grid), pass)
  ELSE LET pt == snap(Num(raw[1]), Num(raw[2]), CanvasW, CanvasH, gridOf(st, side))
           s1 == CASE st.buildingWhat = "point" ->
                        advancePlaceObject(
                          point([st EXCEPT !.building = Null], shapeOf(side), pt[1], pt[2]),
                          pass)
                   [] st.buildingWhat \in {"line", "circle"} ->
                        clickTwoPoint(st, side, pt, pass)
                   [] st.buildingWhat = "polygon" ->
                        clickPolygon(st, side, pt, pass)
                   [] st.buildingWhat = "eraser" ->
                        erasePoint(st, shapeOf(side), pt[1], pt[2])
       IN  render(s1, pass)

(* The listener that makeClickListener returns for one canvas.             *)
makeClickListener(st, side, raw, pass) ==
  IF st.buildingWhat = "grid-selection"
  THEN render(setGrid(st, side, st.building.grid), pass)
  ELSE IF clickable(st, side)
  THEN LET pt == snap(Num(raw[1]), Num(raw[2]), CanvasW, CanvasH, gridOf(st, side))
           s1 == CASE st.buildingWhat = "point" ->
                        advancePlaceObject(
                          point([st EXCEPT !.building = Null], shapeOf(side), pt[1], pt[2]),
                          pass)
                   [] st.buildingWhat \in {"line", "circle"} ->
                        clickTwoPoint(st, side, pt, pass)
                   [] st.buildingWhat = "polygon" ->
                        clickPolygon(st, side, pt, pass)
                   [] st.buildingWhat = "eraser" ->
                        erasePoint(st, shapeOf(side), pt[1], pt[2])
       IN  render(s1, pass)
  ELSE st

clearClicked(st, side, pass) == render(clear(st, shapeOf(side)), pass)

confirmClicked(st, pass) == render(advanceConfirm(st, pass), pass)

(* The next-level listener without its first statement: the button stays   *)
(* visible.                                                                *)
nextLevelClickedKeepButton(st, pass) ==
  render(advanceCompleteLevel(st, pass), pass)

nextLevelClicked(st, pass) ==
  render(advanceCompleteLevel(hide(st, "nextLevelButton"), pass), pass)

skipTutorialClicked(st, pass) ==
  render(advanceConfirm(hide([st EXCEPT !.skipTutorial = TRUE], "skipTutorialButton"),
                        pass), pass)

sandboxClicked(st, pass) ==
  LET s1 == clear(clear(clear(st, leftShape), rightShape), sumShape)
      s2 == [s1 EXCEPT !.leftEditable = TRUE, !.rightEditable = TRUE,
                       !.sumEditable = FALSE]
  IN  render(show(s2, "grids"), pass)

(* The tool buttons with the pending points kept when the tool chosen is   *)
(* the one already active.                                                 *)
toolClickedKeepSame(st, tool, pass) ==
  IF st.buildingWhat = tool
  THEN advanceSelectTool(st, tool, pass)
  ELSE advanceSelectTool([st EXCEPT !.building = Null, !.buildingWhat = tool], tool, pass)

toolClicked(st, tool, pass) ==
  advanceSelectTool([st EXCEPT !.building = Null, !.buildingWhat = tool], tool, pass)

gridClicked(st, g) ==
  [st EXCEPT !.buildingWhat = "grid-selection", !.building = [kind |-> "grid", grid |-> g]]

(* The stages that get an entry in the level-select dialog.                *)
LevelStages ==
  {i \in 0..(Len(Stages) - 1) :
     Stages[i + 1].type \in {"level-bc", "show-level-bc", "level-ab", "show-level-ab"}}

levelClicked(st, idx, pass) ==
  render(clear(clear(clear([st EXCEPT !.stage = idx], leftShape), rightShape), sumShape),
         pass)

(* The state when the module has been evaluated up to its last statement,  *)
(* the first call of render: the `let` initialisers, and of the three      *)
(* gating elements only the next-level button hidden by the page.          *)
Constructed ==
  [pathRef |-> [s \in ShapeIds |-> s],
   arrays |-> [s \in ShapeIds |-> IF s \in SlotShapes THEN <<>> ELSE LevelRefs(s)],
   isAlreadyCentered |-> [s \in ShapeIds |-> s \in LevelCentered],
   stage |-> 0, lastRenderStage |-> -1, skipTutorial |-> FALSE,
   leftEditable |-> TRUE, rightEditable |-> FALSE, sumEditable |-> FALSE,
   leftGrid |-> "square", rightGrid |-> "square", sumGrid |-> "square",
   building |-> Null, buildingSide |-> 0, buildingWhat |-> "point",
   hidden |-> {"nextLevelButton"}, threw |-> FALSE]

Loaded == render(Constructed, FALSE)

Is(st) ==
  /\ pathRef = st.pathRef
  /\ arrays = st.arrays
  /\ isAlreadyCentered = st.isAlreadyCentered
  /\ stage = st.stage
  /\ lastRenderStage = st.lastRenderStage
  /\ skipTutorial = st.skipTutorial
  /\ leftEditable = st.leftEditable
  /\ rightEditable = st.rightEditable
  /\ sumEditable = st.sumEditable
  /\ leftGrid = st.leftGrid
  /\ rightGrid = st.rightGrid
  /\ sumGrid = st.sumGrid
  /\ building = st.building
  /\ buildingSide = st.buildingSide
  /\ buildingWhat = st.buildingWhat
  /\ hidden = st.hidden

(* The slots' sequences and the pending state, as remembered at the start  *)
(* of a run of canvas clicks.                                              *)
Snapshot(st) ==
  [left |-> PathOf(st, leftShape), right |-> PathOf(st, rightShape),
   sum |-> PathOf(st, sumShape), building |-> st.building,
   buildingSide |-> st.buildingSide]

(* The length of a session: the events handled, mousemove apart.           *)
MaxEvents == 3

NotDrawn == [done |-> FALSE]

RasterIdle ==
  /\ offscreen = {}
  /\ drawnAB = NotDrawn
  /\ drawnBA = NotDrawn
  /\ lastRaster = [op |-> "none"]

NoEvent == [type |-> "none"]

NoRun ==
  /\ nEvents = 0
  /\ run = <<>>
  /\ runBefore = Null
  /\ lastEvent = NoEvent

(* An event other than a canvas click ends the run of clicks.              *)
Other(st) ==
  /\ Becomes(st)
  /\ nEvents < MaxEvents
  /\ nEvents' = nEvents + 1
  /\ run' = <<>>
  /\ runBefore' = Null
  /\ UNCHANGED <<lastEvent, apiCall, snapVars, rasterVars>>

(* The pointer positions clicked, as offsetX, offsetY.                     *)
RawClicks == {<<200, 150>>, <<240, 150>>, <<200, 190>>}

(* A click on a canvas whose listener does something: it is choosing a     *)
(* grid or its slot is editable.                                           *)
CanvasClick(budget) ==
  \E side \in Sides, raw \in RawClicks, pass \in BOOLEAN :
    /\ nEvents < budget
    /\ buildingWhat = "grid-selection" \/ clickable(Ui, side)
    /\ Becomes(makeClickListener(Ui, side, raw, pass))
    /\ nEvents' = nEvents + 1
    /\ run' = Append(run, [side |-> side,
                           point |-> snap(Num(raw[1]), Num(raw[2]), CanvasW, CanvasH,
                                          gridOf(Ui, side))])
    /\ runBefore' = IF run = <<>> THEN Snapshot(Ui) ELSE runBefore
    /\ UNCHANGED <<lastEvent, apiCall, snapVars, rasterVars>>

(* The mousemove listener only renders; it does not end a run of clicks.   *)
MouseMove ==
  \E pass \in BOOLEAN :
    /\ Becomes(render(Ui, pass))
    /\ UNCHANGED <<nEvents, run, runBefore, lastEvent, apiCall, snapVars, rasterVars>>

ClearClick ==
  \E side \in Sides, pass \in BOOLEAN :
    /\ clickable(Ui, side)
    /\ Other(clearClicked(Ui, side, pass))

ConfirmClick ==
  \E pass \in BOOLEAN : Other(confirmClicked(Ui, pass))

NextLevelClick ==
  \E pass \in BOOLEAN :
    /\ "nextLevelButton" \notin hidden
    /\ Other(nextLevelClicked(Ui, pass))

SkipTutorialClick ==
  \E pass \in BOOLEAN :
    /\ "skipTutorialButton" \notin hidden
    /\ Other(skipTutorialClicked(Ui, pass))

SandboxClick == \E pass \in BOOLEAN : Other(sandboxClicked(Ui, pass))

ToolClick == \E tool \in Tools, pass \in BOOLEAN : Other(toolClicked(Ui, tool, pass))

GridClick ==
  \E g \in Grids :
    /\ "grids" \notin hidden
    /\ Other(gridClicked(Ui, g))

LevelClick == \E idx \in LevelStages, pass \in BOOLEAN : Other(levelClicked(Ui, idx, pass))

Init ==
  /\ Is(Loaded)
  /\ NoRun
  /\ RasterIdle
  /\ ApiIdle
  /\ SnapIdle

Next ==
  \/ CanvasClick(MaxEvents)
  \/ MouseMove
  \/ ClearClick
  \/ ConfirmClick
  \/ NextLevelClick
  \/ SkipTutorialClick
  \/ SandboxClick
  \/ ToolClick
  \/ GridClick
  \/ LevelClick

Spec == Init /\ [][Next]_vars

----------------------------------------------------------------------------
(* The Shape methods called directly on one Shape (a `new Shape()`), with  *)
(* arguments from small sets.                                              *)

MaxPath == 3

ApiP0 == <<Num(0), Num(0)>>

ApiP1 == <<Num(1), Num(0)>>

ApiPts == {ApiP0, ApiP1}

ApiPolygons == {<<>>, <<ApiP0>>, <<ApiP1>>, <<ApiP1, ApiP0>>}

(* exactly 1, 1 + 5e-7 (within the tolerance), 1 + 2e-6 (outside), and 0   *)
ApiRadii == {Radius(1), RadiusOff(1, 5), RadiusOff(1, 20), Radius(0)}

ApiInit ==
  /\ Is(Constructed)
  /\ NoRun
  /\ RasterIdle
  /\ ApiIdle
  /\ SnapIdle

ApiRoom == Len(PathOf(Heap, leftShape)) < MaxPath

ApiDone(h, call) ==
  /\ HeapBecomes(h)
  /\ apiCall' = call @@ [before |-> PathOf(Heap, leftShape)]
  /\ UNCHANGED <<snapVars, pageVars, rasterVars>>

CallPoint ==
  \E p \in ApiPts :
    /\ ApiRoom
    /\ ApiDone(point(Heap, leftShape, p[1], p[2]), [op |-> "point"])

CallLine ==
  \E p \in ApiPts, q \in ApiPts :
    /\ ApiRoom
    /\ ApiDone(line(Heap, leftShape, p[1], p[2], q[1], q[2]), [op |-> "line"])

CallPolygon ==
  \E points \in ApiPolygons :
    /\ ApiRoom
    /\ ApiDone(polygon(Heap, leftShape, points), [op |-> "polygon"])

CallCircle ==
  \E radius \in ApiRadii :
    /\ ApiRoom
    /\ ApiDone(circle(Heap, leftShape, ApiP0[1], ApiP0[2], radius), [op |-> "circle"])

CallDomPath ==
  /\ ApiRoom
  /\ ApiDone(domPath(Heap, leftShape, 1), [op |-> "domPath"])

CallErasePoint ==
  \E p \in ApiPts :
    ApiDone(erasePoint(Heap, leftShape, p[1], p[2]),
            [op |-> "erasePoint", x |-> p[1], y |-> p[2]])

CallClear == ApiDone(clear(Heap, leftShape), [op |-> "clear"])

ApiNext ==
  \/ CallPoint
  \/ CallLine
  \/ CallPolygon
  \/ CallCircle
  \/ CallDomPath
  \/ CallErasePoint
  \/ CallClear

SpecShape == ApiInit /\ [][ApiNext]_vars

(* What the contract of erasePoint calls a match of primitive p at (x, y). *)
OnBoundary(c, x, y) ==
  LET d == hypot(NSub(c.cx, x), NSub(c.cy, y))
  IN  d.d2 = c.radius.d2 /\ d.off - c.radius.off \in (1 - EraseTolerance)..(EraseTolerance - 1)

ClaimMatches(p, x, y) ==
  \/ p.type = "point" /\ <<p.x, p.y>> = <<x, y>>
  \/ p.type = "line" /\ (<<p.x1, p.y1>> = <<x, y>> \/ <<p.x2, p.y2>> = <<x, y>>)
  \/ p.type = "polygon" /\ \E i \in DOMAIN p.points : p.points[i] = <<x, y>>
  \/ p.type = "circle" /\ OnBoundary(p, x, y)

NonMatching(path, x, y) ==
  LET Keep(p) == ~ClaimMatches(p, x, y)
  IN  SelectSeq(path, Keep)

Erased == apiCall.op = "erasePoint"

(* C7: erasePoint(x, y) removes exactly the matching primitives (a Point   *)
(* at (x, y), a Line with an endpoint there, a Polygon with a vertex       *)
(* there, a Circle whose boundary passes through it within 1e-6; never a   *)
(* dom-path) and leaves the others in their order; with no match the       *)
(* sequence is unchanged.                                                  *)
C7_ErasePointExact ==
  Erased =>
    /\ PathOf(Heap, leftShape) = NonMatching(apiCall.before, apiCall.x, apiCall.y)
    /\ (\A i \in DOMAIN apiCall.before :
           ~ClaimMatches(apiCall.before[i], apiCall.x, apiCall.y))
         => PathOf(Heap, leftShape) = apiCall.before

(* An erase that removed a circle within the tolerance and a polygon       *)
(* matched at its second vertex, and kept a primitive.                     *)
C7_Witness ==
  /\ Erased
  /\ Len(apiCall.before) = 3
  /\ Len(PathOf(Heap, leftShape)) = 1
  /\ \E i \in DOMAIN apiCall.before :
        apiCall.before[i].type = "circle" /\ apiCall.before[i].radius = RadiusOff(1, 5)
  /\ \E i \in DOMAIN apiCall.before :
        /\ apiCall.before[i].type = "polygon"
        /\ apiCall.before[i].points = <<ApiP1, ApiP0>>
  /\ apiCall.x = ApiP0[1]

ErasedPlacedPoint ==
  /\ Erased
  /\ \E i \in DOMAIN apiCall.before :
        apiCall.before[i] = [type |-> "point", x |-> apiCall.x, y |-> apiCall.y]

(* C8 as claimed: erasing at the coordinate of a placed Point removes      *)
(* exactly that one Point and no other primitive.                          *)
C8_EraseOnlyThatPoint ==
  ErasedPlacedPoint =>
    /\ Len(PathOf(Heap, leftShape)) = Len(apiCall.before) - 1
    /\ \A i \in DOMAIN apiCall.before :
          apiCall.before[i].type # "point" =>
             \E j \in DOMAIN PathOf(Heap, leftShape) :
                PathOf(Heap, leftShape)[j] = apiCall.before[i]

(* C8: erasing at the coordinate of a placed Point removes that Point and  *)
(* every other primitive matching that coordinate, and nothing else: no    *)
(* Point at that coordinate remains, the count drops by the number of      *)
(* matching primitives (at least one), and none of the rest is lost.       *)
C8_EraseRemovesPlacedPoint ==
  ErasedPlacedPoint =>
    LET now == PathOf(Heap, leftShape)
        hit == {i \in DOMAIN apiCall.before :
                  ClaimMatches(apiCall.before[i], apiCall.x, apiCall.y)}
    IN  /\ \A j \in DOMAIN now :
              now[j] # [type |-> "point", x |-> apiCall.x, y |-> apiCall.y]
        /\ Len(now) = Len(apiCall.before) - Cardinality(hit)
        /\ Len(now) < Len(apiCall.before)
        /\ \A i \in DOMAIN apiCall.before \ hit :
              \E j \in DOMAIN now : now[j] = apiCall.before[i]

(* A placed Point erased together with a Line that ends at it.             *)
C8_Witness ==
  /\ ErasedPlacedPoint
  /\ \E i \in DOMAIN apiCall.before : apiCall.before[i].type = "line"
  /\ Len(PathOf(Heap, leftShape)) = Len(apiCall.before) - 2

----------------------------------------------------------------------------
(* Snap as a function of its arguments: a raw pointer position is snapped, *)
(* and the result is snapped again on the same surface and lattice.        *)

RawXs == {0, 7, 170, 190, 200, 210, 220, 399}

RawYs == {0, 20, 150, 160, 170, 299}

SnapSizes == {<<CanvasW, CanvasH>>, <<CanvasW + 1, CanvasH + 1>>}

MaxSnaps == 2

SnapInit ==
  /\ Is(Constructed)
  /\ NoRun
  /\ RasterIdle
  /\ ApiIdle
  /\ snapGrid \in Grids
  /\ snapSize \in SnapSizes
  /\ \E x \in RawXs, y \in RawYs : snapRaw = <<Num(x), Num(y)>>
  /\ snapPrev = snapRaw
  /\ snapPt = snapRaw
  /\ snapN = 0

ApplySnap ==
  /\ snapN < MaxSnaps
  /\ snapPrev' = snapPt
  /\ snapPt' = snap(snapPt[1], snapPt[2], snapSize[1], snapSize[2], snapGrid)
  /\ snapN' = snapN + 1
  /\ UNCHANGED <<snapGrid, snapSize, snapRaw>>
  /\ UNCHANGED <<heapVars, apiCall, pageVars, rasterVars>>

SnapNext == ApplySnap

SpecSnap == SnapInit /\ [][SnapNext]_vars

(* C5: snap is idempotent on every lattice kind: snapping a snapped point  *)
(* (snapPrev, the result of the first application) gives the same point.   *)
C5_SnapIdempotent == snapN = 2 => snapPt = snapPrev

(* The lattice kinds on which snap is idempotent in the code.              *)
SnapIdempotentOn(G) == (snapN = 2 /\ snapGrid \in G) => snapPt = snapPrev

IdemSquare == SnapIdempotentOn({"square"})

IdemFineSquare == SnapIdempotentOn({"fine-square"})

IdemTriangle == SnapIdempotentOn({"triangle"})

IdemFineTriangle == SnapIdempotentOn({"fine-triangle"})


(* C6: orthogonal snap moves each axis to the nearest lattice multiple:    *)
(* the snapped coordinate is at most half the lattice spacing away from    *)
(* the raw one (spacing 40 for square, 20 for fine-square).                *)
C6_OrthogonalNearest ==
  (snapN = 1 /\ snapGrid \in {"square", "fine-square"}) =>
     \A i \in {1, 2} :
        NLeq(NAbs(NSub(snapPt[i], snapRaw[i])), Half(gridSize(snapGrid)))

NearSquare == snapGrid = "square" => C6_OrthogonalNearest

(* C9: no two Shapes share a primitive sequence, and whatever is done to   *)
(* the three slots (clicks that add or erase, clears, level loads that     *)
(* clear and copy) the Shapes of the level script keep the sequences they  *)
(* were built with.                                                        *)
C9_NoSharedSequence ==
  /\ \A s \in ShapeIds : \A t \in ShapeIds : s # t => pathRef[s] # pathRef[t]
  /\ \A s \in LevelShapeIds : PathOf(Heap, s) = LevelRefs(s)

(* A slot that holds the copied primitives of a level Shape and, after     *)
(* them, a primitive added by a click.                                     *)
C9_Witness ==
  /\ run # <<>>
  /\ \E side \in Sides :
        LET p == PathOf(Heap, shapeOf(side))
        IN  /\ Len(p) >= 2
            /\ "ref" \in DOMAIN p[1]
            /\ "type" \in DOMAIN p[Len(p)]
  /\ C9_NoSharedSequence

----------------------------------------------------------------------------
(* The builder: canvas clicks (and mouse moves) after a tool has been      *)
(* chosen, in a few situations of the page.                                *)

MaxClicks == 4

(* Situations reached from the loaded page by one or two events: the       *)
(* welcome stage, the playground, a level whose next stage asks for the    *)
(* polygon tool and then for an object, the same with the tutorial         *)
(* skipped, and a level whose next stage (another level) is still to be    *)
(* rendered.                                                               *)
BuilderContexts ==
  {Loaded,
   sandboxClicked(Loaded, FALSE),
   levelClicked(Loaded, 12, FALSE),
   levelClicked(skipTutorialClicked(Loaded, FALSE), 12, FALSE),
   levelClicked(Loaded, 26, FALSE)}

BuilderInit ==
  /\ \E c \in BuilderContexts, tool \in Tools : Is(toolClicked(c, tool, FALSE))
  /\ NoRun
  /\ RasterIdle
  /\ ApiIdle
  /\ SnapIdle

BuilderNext ==
  \/ CanvasClick(MaxClicks)
  \/ MouseMove

SpecBuilder == BuilderInit /\ [][BuilderNext]_vars

RunOnSide(side) == \A i \in DOMAIN run : run[i].side = side

BeforeOf(side) ==
  CASE side = 0 -> runBefore.left [] side = 1 -> runBefore.right [] side = 2 -> runBefore.sum

(* The last four events were clicks on one slot, at P1, P2, P3, P1 with    *)
(* P1, P2, P3 pairwise distinct, with the polygon tool and nothing pending *)
(* before the first.                                                       *)
PolygonRun(side) ==
  /\ buildingWhat = "polygon"
  /\ Len(run) = 4
  /\ RunOnSide(side)
  /\ runBefore.building = Null
  /\ run[1].point # run[2].point
  /\ run[1].point # run[3].point
  /\ run[2].point # run[3].point
  /\ run[4].point = run[1].point

(* C10: from an idle builder with the polygon tool, four clicks on one     *)
(* editable slot at P1, P2, P3, P1 append exactly one Polygon with the     *)
(* vertices [P1, P2, P3] to that slot, append nothing to another Shape,    *)
(* and leave the builder idle.                                             *)
C10_PolygonBuilt ==
  \A side \in Sides :
    PolygonRun(side) =>
      /\ PathOf(Heap, shapeOf(side)) =
           Append(BeforeOf(side),
                  [type |-> "polygon",
                   points |-> <<run[1].point, run[2].point, run[3].point>>])
      /\ \A other \in Sides \ {side} : PathOf(Heap, shapeOf(other)) = BeforeOf(other)
      /\ \A s \in LevelShapeIds : PathOf(Heap, s) = LevelRefs(s)
      /\ building = Null

(* The four clicks made on the left slot, which also ended the stage that  *)
(* asked for an object.                                                    *)
C10_Witness ==
  /\ PolygonRun(0)
  /\ building = Null
  /\ Len(PathOf(Heap, leftShape)) = 1
  /\ PathOf(Heap, leftShape)[1].type = "polygon"
  /\ StageAt(stage).type = "tutorial-complete-level"

(* A run of n clicks on one slot with the line or the circle tool, begun   *)
(* with nothing pending.                                                   *)
TwoPointRun(side, n) ==
  /\ buildingWhat \in {"line", "circle"}
  /\ Len(run) = n
  /\ RunOnSide(side)
  /\ runBefore.building = Null

(* The primitive that the tool makes of the two clicked points.            *)
TwoPointPrimitive(p, q) ==
  IF buildingWhat = "line"
  THEN [type |-> "line", x1 |-> p[1], y1 |-> p[2], x2 |-> q[1], y2 |-> q[2]]
  ELSE [type |-> "circle", cx |-> p[1], cy |-> p[2],
        radius |-> [d2 |-> NAdd(NSq(NSub(p[1], q[1])), NSq(NSub(p[2], q[2]))), off |-> 0]]

(* No slot holds a primitive made by a click that it did not hold when the *)
(* run began (the render of a click may still load a level's Shapes).      *)
NothingCommitted ==
  \A o \in Sides :
    \A i \in DOMAIN PathOf(Heap, shapeOf(o)) :
      \/ "ref" \in DOMAIN PathOf(Heap, shapeOf(o))[i]
      \/ \E j \in DOMAIN BeforeOf(o) : BeforeOf(o)[j] = PathOf(Heap, shapeOf(o))[i]

(* C11: with the line or the circle tool and nothing pending, the first    *)
(* click on an editable slot commits nothing and leaves its snapped point  *)
(* pending; the second click on the same slot appends exactly the Line     *)
(* from the first point to the second, or the Circle centred at the first  *)
(* with the distance of the two as radius, and leaves nothing pending;     *)
(* also when the two points are equal.                                     *)
C11_TwoClickProtocol ==
  \A side \in Sides :
    /\ TwoPointRun(side, 1) =>
         /\ building = [kind |-> "point", pt |-> run[1].point]
         /\ buildingSide = side
         /\ NothingCommitted
    /\ TwoPointRun(side, 2) =>
         /\ building = Null
         /\ PathOf(Heap, shapeOf(side)) =
              Append(BeforeOf(side), TwoPointPrimitive(run[1].point, run[2].point))
         /\ \A o \in Sides \ {side} : PathOf(Heap, shapeOf(o)) = BeforeOf(o)

(* Two clicks at one point with the circle tool: a Circle of radius 0.     *)
C11_Witness ==
  /\ buildingWhat = "circle"
  /\ TwoPointRun(0, 2)
  /\ run[1].point = run[2].point
  /\ building = Null
  /\ Len(PathOf(Heap, leftShape)) = Len(runBefore.left) + 1
  /\ PathOf(Heap, leftShape)[Len(PathOf(Heap, leftShape))].radius = Radius(0)

(* A run of n clicks on one slot with the polygon tool, begun with nothing *)
(* pending, whose first three clicks are at pairwise distinct points.      *)
UndoRun(side, n) ==
  /\ buildingWhat = "polygon"
  /\ Len(run) = n
  /\ RunOnSide(side)
  /\ runBefore.building = Null
  /\ run[1].point # run[2].point
  /\ n = 4 => (run[1].point # run[3].point /\ run[2].point # run[3].point)

(* C15: with the polygon tool, a click on the slot of the pending vertices *)
(* at one of them other than the first removes that vertex and only that   *)
(* one, keeps the others in order, does not append the clicked point, and  *)
(* commits nothing: after P1, P2, P2 the pending list is [P1]; after P1,   *)
(* P2, P3, P2 it is [P1, P3]; after P1, P2, P3, P3 it is [P1, P2].         *)
C15_ClickUndoesVertex ==
  \A side \in Sides :
    /\ (UndoRun(side, 3) /\ run[3].point = run[2].point) =>
         /\ building = [kind |-> "list", pts |-> <<run[1].point>>]
         /\ \A o \in Sides : PathOf(Heap, shapeOf(o)) = BeforeOf(o)
    /\ (UndoRun(side, 4) /\ run[4].point = run[2].point) =>
         /\ building = [kind |-> "list", pts |-> <<run[1].point, run[3].point>>]
         /\ \A o \in Sides : PathOf(Heap, shapeOf(o)) = BeforeOf(o)
    /\ (UndoRun(side, 4) /\ run[4].point = run[3].point) =>
         /\ building = [kind |-> "list", pts |-> <<run[1].point, run[2].point>>]
         /\ \A o \in Sides : PathOf(Heap, shapeOf(o)) = BeforeOf(o)

(* The second of three pending vertices clicked again, on the right slot   *)
(* of the playground.                                                      *)
C15_Witness ==
  /\ UndoRun(1, 4)
  /\ run[4].point = run[2].point
  /\ building = [kind |-> "list", pts |-> <<run[1].point, run[3].point>>]
  /\ buildingSide = 1

----------------------------------------------------------------------------
(* Sessions that mix clicks on any of the three canvases, editable or not, *)
(* with the tool, grid, clear, level, playground and next-level buttons.   *)
(* Every event is recorded with the state it was handled in.               *)

MaxSteps == 3

SessionTools == {"line", "polygon"}

(* A level-bc stage and a level-ab stage of the level-select dialog.       *)
SessionLevels == {16, 21}

SessionClicks == {<<200, 150>>, <<240, 150>>}

(* The playground, two levels entered from the dialog, and the first of   *)
(* them with a point placed and the next-level button showing.             *)
SessionContexts ==
  {sandboxClicked(Loaded, FALSE), levelClicked(Loaded, 16, FALSE),
   levelClicked(Loaded, 21, FALSE)}
    \cup {makeClickListener(c, 0, <<200, 150>>, TRUE) :
            c \in {toolClicked(l, "point", FALSE) :
                     l \in {levelClicked(Loaded, 16, FALSE)}}}

(* A session starts with a tool chosen and nothing pending, or with the    *)
(* line tool and its first point clicked on the left canvas.               *)
SessionInit ==
  /\ \E c \in SessionContexts, tool \in SessionTools :
       \E s0 \in {toolClicked(c, tool, FALSE)} :
         \/ Is(s0)
         \/ tool = "line" /\ Is(makeClickListener(s0, 0, <<200, 150>>, FALSE))
  /\ NoRun
  /\ RasterIdle
  /\ ApiIdle
  /\ SnapIdle

(* The state an event is handled in, to compare the state after it with.   *)
Before == Snapshot(Ui) @@ [buildingWhat |-> buildingWhat,
                            editable |-> [side \in Sides |-> clickable(Ui, side)]]

Handled(ev, st) ==
  /\ nEvents < MaxSteps
  /\ Becomes(st)
  /\ nEvents' = nEvents + 1
  /\ lastEvent' = ev @@ [before |-> Before]
  /\ UNCHANGED <<apiCall, snapVars, rasterVars>>

(* An event other than a canvas click ends the run of clicks; the run that *)
(* follows remembers which event it came after.                            *)
Button(ev, st) ==
  /\ Handled(ev, st)
  /\ run' = <<>>
  /\ runBefore' = [kind |-> "after", type |-> ev.type]

(* A click on a canvas.  The listener returns at once when its slot is not *)
(* editable and no grid is being chosen: the run of clicks goes on.        *)
SessionClick ==
  \E side \in Sides, raw \in SessionClicks, pass \in BOOLEAN :
    \E pt \in {snap(Num(raw[1]), Num(raw[2]), CanvasW, CanvasH, gridOf(Ui, side))} :
      /\ Handled([type |-> "click", side |-> side, point |-> pt],
                 makeClickListener(Ui, side, raw, pass))
      /\ IF buildingWhat = "grid-selection" \/ clickable(Ui, side)
         THEN /\ run' = Append(run, [side |-> side, point |-> pt])
              /\ runBefore' = IF run = <<>>
                              THEN Snapshot(Ui) @@
                                   [after |-> IF runBefore = Null THEN "none"
                                              ELSE runBefore.type]
                              ELSE runBefore
         ELSE UNCHANGED <<run, runBefore>>

SessionMove ==
  \E pass \in BOOLEAN :
    /\ Becomes(render(Ui, pass))
    /\ lastEvent' = [type |-> "mousemove", before |-> Before]
    /\ UNCHANGED <<nEvents, run, runBefore, apiCall, snapVars, rasterVars>>

SessionNext ==
  \/ SessionClick
  \/ SessionMove
  \/ \E tool \in SessionTools, pass \in BOOLEAN :
       Button([type |-> "tool", tool |-> tool], toolClicked(Ui, tool, pass))
  \/ \E g \in Grids :
       /\ "grids" \notin hidden
       /\ Button([type |-> "grid"], gridClicked(Ui, g))
  \/ \E side \in Sides, pass \in BOOLEAN :
       /\ clickable(Ui, side)
       /\ Button([type |-> "clear"], clearClicked(Ui, side, pass))
  \/ \E idx \in SessionLevels, pass \in BOOLEAN :
       Button([type |-> "level", idx |-> idx], levelClicked(Ui, idx, pass))
  \/ \E pass \in BOOLEAN :
       Button([type |-> "playground"], sandboxClicked(Ui, pass))
  \/ \E pass \in BOOLEAN :
       /\ "nextLevelButton" \notin hidden
       /\ Button([type |-> "next-level"], nextLevelClicked(Ui, pass))

SpecSession == SessionInit /\ [][SessionNext]_vars

(* The points a primitive placed by a click is made of.                    *)
PrimPoints(p) ==
  CASE p.type = "point" -> {<<p.x, p.y>>}
    [] p.type = "line" -> {<<p.x1, p.y1>>, <<p.x2, p.y2>>}
    [] p.type = "circle" -> {<<p.cx, p.cy>>}
    [] p.type = "polygon" -> {p.points[i] : i \in DOMAIN p.points}

(* The primitives of a slot that clicks placed and that were not there     *)
(* when the run of clicks began.                                           *)
PlacedInRun(side) ==
  {p \in {PathOf(Heap, shapeOf(side))[i] : i \in DOMAIN PathOf(Heap, shapeOf(side))} :
     /\ "ref" \notin DOMAIN p
     /\ \A j \in DOMAIN BeforeOf(side) : BeforeOf(side)[j] # p}

(* Every primitive placed in the run is made of points clicked in the run, *)
(* on the slot that holds it.                                              *)
PlacedFromRun ==
  \A side \in Sides : \A p \in PlacedInRun(side) :
    PrimPoints(p) \subseteq {run[i].point : i \in {j \in DOMAIN run : run[j].side = side}}

Pending == building # Null /\ building.kind \in {"point", "list"}

(* C12: when a tool button's handler has finished the builder is idle,     *)
(* whatever was pending, and no primitive placed after a tool change       *)
(* contains a point clicked before it.                                     *)
C12_ToolChangeDiscards ==
  /\ lastEvent.type = "tool" => building = Null /\ buildingWhat = lastEvent.tool
  /\ run # <<>> /\ runBefore.after = "tool" => PlacedFromRun

(* a point was pending when the line tool was chosen again, and the two    *)
(* clicks that followed placed a line                                      *)
C12_Witness ==
  /\ lastEvent.type = "click"
  /\ nEvents = 3
  /\ Len(run) = 2
  /\ runBefore.after = "tool"
  /\ buildingWhat = "line"
  /\ building = Null
  /\ PlacedInRun(0) # {}
  /\ \A side \in Sides : PathOf(Heap, shapeOf(side)) # <<>>

(* The points the builder holds.                                           *)
PendingPoints(b) ==
  IF b.kind = "point" THEN {b.pt}
  ELSE IF b.kind = "list" THEN {b.pts[i] : i \in DOMAIN b.pts}
  ELSE {}

(* The last event was a click on a canvas with a line, circle or polygon   *)
(* pending on another one.                                                 *)
ClickedOtherSlot ==
  /\ lastEvent.type = "click"
  /\ lastEvent.before.buildingWhat \in {"line", "circle", "polygon"}
  /\ lastEvent.before.building.kind \in {"point", "list"}
  /\ lastEvent.side # lastEvent.before.buildingSide

(* The builder holds the clicked point alone, for the clicked slot.        *)
StartedAfresh ==
  /\ buildingSide = lastEvent.side
  /\ building = IF buildingWhat = "polygon"
                THEN [kind |-> "list", pts |-> <<lastEvent.point>>]
                ELSE [kind |-> "point", pt |-> lastEvent.point]

(* Every primitive placed in the run is made of points clicked on its own  *)
(* slot, in the run or pending for that slot when the run began.           *)
PlacedFromOwnSlot ==
  \A side \in Sides : \A p \in PlacedInRun(side) :
    PrimPoints(p) \subseteq
      {run[i].point : i \in {j \in DOMAIN run : run[j].side = side}}
        \cup (IF runBefore.buildingSide = side
              THEN PendingPoints(runBefore.building) ELSE {})

(* C13 as stated: after a click on a slot other than the one that owns the *)
(* pending points, none of them is left in the builder, which starts       *)
(* afresh for the clicked slot; and no primitive placed combines points    *)
(* clicked on two slots.                                                   *)
C13_OtherSlotDiscards ==
  /\ ClickedOtherSlot => StartedAfresh
  /\ run # <<>> => PlacedFromOwnSlot

(* C13 for a click that the listener handles, on an editable slot: a click *)
(* on a slot that is not editable is ignored and leaves the builder as it  *)
(* was, pending points and owner.                                          *)
C13_EditableOtherSlotDiscards ==
  /\ ClickedOtherSlot /\ lastEvent.before.editable[lastEvent.side] => StartedAfresh
  /\ ClickedOtherSlot /\ ~lastEvent.before.editable[lastEvent.side] =>
       building = lastEvent.before.building /\ buildingSide = lastEvent.before.buildingSide
  /\ run # <<>> => PlacedFromOwnSlot

(* in the playground a point was pending on the left canvas and the right  *)
(* one was clicked elsewhere                                               *)
C13_Witness ==
  /\ ClickedOtherSlot
  /\ lastEvent.before.editable[lastEvent.side]
  /\ lastEvent.point \notin PendingPoints(lastEvent.before.building)
  /\ StartedAfresh

(* The polygons that clicks placed in a slot.                              *)
PlacedPolygons(side) ==
  {p \in {PathOf(Heap, shapeOf(side))[i] : i \in DOMAIN PathOf(Heap, shapeOf(side))} :
     "ref" \notin DOMAIN p /\ p.type = "polygon"}

(* C16: in every session, with the polygon tool active the builder holds   *)
(* nothing or a list of at least one vertex, and every polygon the builder *)
(* appended to a slot has at least one vertex.                             *)
C16_NoEmptyPolygon ==
  /\ buildingWhat = "polygon" =>
       building = Null \/ (building.kind = "list" /\ building.pts # <<>>)
  /\ \A side \in Sides : \A p \in PlacedPolygons(side) : Len(p.points) >= 1

(* the first vertex was clicked twice: a polygon of that one vertex was    *)
(* placed                                                                  *)
C16_Witness ==
  /\ lastEvent.type = "click"
  /\ buildingWhat = "polygon"
  /\ building = Null
  /\ \E side \in Sides : \E p \in PlacedPolygons(side) : p.points = <<lastEvent.point>>

(* C18: a click on a canvas whose slot is not editable, with a tool other  *)
(* than grid-selection, leaves the sequences of the three slots, the       *)
(* pending points, their owning slot and the selected tool as they were.   *)
C18_IneditableClickIgnored ==
  lastEvent.type = "click"
    /\ ~lastEvent.before.editable[lastEvent.side]
    /\ lastEvent.before.buildingWhat # "grid-selection" =>
      /\ PathOf(Heap, leftShape) = lastEvent.before.left
      /\ PathOf(Heap, rightShape) = lastEvent.before.right
      /\ PathOf(Heap, sumShape) = lastEvent.before.sum
      /\ building = lastEvent.before.building
      /\ buildingSide = lastEvent.before.buildingSide
      /\ buildingWhat = lastEvent.before.buildingWhat

(* polygon vertices were pending for the left slot when the canvas of the  *)
(* level's target was clicked                                              *)
C18_Witness ==
  /\ lastEvent.type = "click"
  /\ lastEvent.side = 2
  /\ ~lastEvent.before.editable[2]
  /\ buildingWhat = "polygon"
  /\ building.kind = "list"
  /\ buildingSide = 0
  /\ lastEvent.point \notin PendingPoints(building)
  /\ PathOf(Heap, sumShape) # <<>>

Transitions == {"next-level", "level", "playground"}

(* C19: when the handler of the next-level button, of a level-select entry *)
(* or of the playground button has finished the builder holds no point; no *)
(* primitive placed after it contains a point clicked before it; and the   *)
(* slot that owns pending points or vertices is editable.                  *)
C19_TransitionLeavesIdle ==
  /\ lastEvent.type \in Transitions => ~Pending
  /\ run # <<>> /\ runBefore.after \in Transitions => PlacedFromRun
  /\ Pending => clickable(Ui, buildingSide)

(* The level of a level-select entry as the stage block of render loads    *)
(* it: the authored shapes in the slots that are not editable, nothing in  *)
(* the editable one.                                                       *)
LevelLoaded(sg) ==
  IF sg.type \in {"show-level-bc", "level-bc"}
  THEN /\ PathOf(Heap, leftShape) = <<>>
       /\ PathOf(Heap, rightShape) = LevelRefs(sg.right)
       /\ PathOf(Heap, sumShape) = LevelRefs(sg.target)
       /\ leftEditable /\ ~rightEditable /\ ~sumEditable
  ELSE /\ PathOf(Heap, leftShape) = LevelRefs(sg.left)
       /\ PathOf(Heap, rightShape) = LevelRefs(sg.right)
       /\ PathOf(Heap, sumShape) = <<>>
       /\ ~leftEditable /\ ~rightEditable /\ sumEditable

(* C20: when the handler of a level-select entry has finished, its render  *)
(* included, the level of that entry is loaded, whatever the state the     *)
(* entry was clicked in.                                                   *)
C20_LevelSelectLoads ==
  lastEvent.type = "level" => LevelLoaded(StageAt(lastEvent.idx))

----------------------------------------------------------------------------
(* The end of the level script: every event of the page, from the last     *)
(* level with a point placed on its sum canvas and the next-level button   *)
(* showing, and from the stage that the button then leads to.              *)

WinStage == Len(Stages) - 1

EndingInit ==
  /\ \E l \in {levelClicked(Loaded, WinStage - 1, FALSE)} :
       \E t \in {toolClicked(l, "point", FALSE)} :
         \E s \in {makeClickListener(t, 2, <<200, 150>>, TRUE)} :
           \/ Is(s)
           \/ Is(nextLevelClicked(s, FALSE))
  /\ NoRun
  /\ RasterIdle
  /\ ApiIdle
  /\ SnapIdle

SpecEnding == EndingInit /\ [][Next]_vars

(* C21: the stage index stays within the level script, from 0 to the index *)
(* of the 'win' stage, so that stages[stage] is defined, and the           *)
(* next-level button is hidden whenever the game is on the 'win' stage.    *)
C21_StageInScript ==
  /\ stage \in 0..WinStage
  /\ StageAt(stage).type # "undefined"
  /\ StageAt(stage).type = "win" => "nextLevelButton" \in hidden

(* the 'win' stage, reached by the next-level button from the last level,  *)
(* then turned into the playground and a point placed on its left canvas   *)
C21_Witness ==
  /\ stage = WinStage
  /\ StageAt(stage).type = "win"
  /\ lastRenderStage = stage
  /\ leftEditable
  /\ nEvents = MaxEvents
  /\ Len(PathOf(Heap, leftShape)) > Len(LevelRefs(StageAt(stage).shape))

----------------------------------------------------------------------------
(* Rasterisation.  A surface is w x h pixels; a bitmap is the set of its   *)
(* pixels <<x, y>> that are on.  Pixels.pixels tests                       *)
(* Math.floor(px / 2 ** 12) > 0x80 on the little-endian RGBA word, which   *)
(* is true exactly when the pixel has any alpha: a pixel is on as soon as  *)
(* a drawing covers part of it.  Geometry is kept in half pixels (a drawn  *)
(* region is a set of half-pixel cells <<i, j>>, the square of side 1/2 at *)
(* (i/2, j/2)), which is exact for the integer coordinates of the shapes   *)
(* rasterised here and for the half-pixel offsets that centring adds.      *)
(* Points, axis-parallel lines and axis-parallel rectangles (as polygons)  *)
(* are rasterised; the surfaces are scaled down, the scratch surface being *)
(* twice the size of a destination surface as 800 x 600 is of 400 x 300.   *)

HalfW == 2

HalfH == 3

DestW == 2 * HalfW

DestH == 2 * HalfH

(* Shape.offscreen = new OffscreenCanvas(800, 600) *)
ScratchW == 2 * DestW

ScratchH == 2 * DestH

(* A coordinate in half pixels.                                            *)
InHalves(v) == v[1] \div 6

Min2(a, b) == IF a <= b THEN a ELSE b

Max2(a, b) == IF a >= b THEN a ELSE b

Cells(i1, i2, j1, j2) == {<<i, j>> : i \in i1..(i2 - 1), j \in j1..(j2 - 1)}

(* The cells that one primitive covers when drawn with forDisplay false    *)
(* (line width 1, transparent stroke on polygons) under a translation by   *)
(* (tx, ty) half pixels.                                                   *)
CoverDatum(p, tx, ty) ==
  CASE p.type = "point" ->
         Cells(InHalves(p.x) + tx, InHalves(p.x) + tx + 2,
               InHalves(p.y) + ty, InHalves(p.y) + ty + 2)
    [] p.type = "line" ->
         IF p.y1 = p.y2
         THEN Cells(Min2(InHalves(p.x1), InHalves(p.x2)) + tx,
                    Max2(InHalves(p.x1), InHalves(p.x2)) + tx,
                    InHalves(p.y1) - 1 + ty, InHalves(p.y1) + 1 + ty)
         ELSE Cells(InHalves(p.x1) - 1 + tx, InHalves(p.x1) + 1 + tx,
                    Min2(InHalves(p.y1), InHalves(p.y2)) + ty,
                    Max2(InHalves(p.y1), InHalves(p.y2)) + ty)
    [] p.type = "polygon" ->
         IF p.points = <<>> THEN {}
         ELSE LET xs == {InHalves(p.points[i][1]) : i \in DOMAIN p.points}
                  ys == {InHalves(p.points[i][2]) : i \in DOMAIN p.points}
                  x1 == CHOOSE x \in xs : \A o \in xs : x <= o
                  x2 == CHOOSE x \in xs : \A o \in xs : x >= o
                  y1 == CHOOSE y \in ys : \A o \in ys : y <= o
                  y2 == CHOOSE y \in ys : \A o \in ys : y >= o
              IN  Cells(x1 + tx, x2 + tx, y1 + ty, y2 + ty)

(* for (const datum of this.path): the primitive that the entry refers to  *)
CoverPrim(datum, tx, ty) == CoverDatum(Deref(datum), tx, ty)

CoverPath(path, tx, ty) == UNION {CoverPrim(path[i], tx, ty) : i \in DOMAIN path}

(* The pixels that a set of cells touches.                                 *)
Touched(cells) == {<<c[1] \div 2, c[2] \div 2>> : c \in cells}

OnSurface(px, w, h) == px[1] \in 0..(w - 1) /\ px[2] \in 0..(h - 1)

(* this.draw(ctx, false, color) on a surface of w x h under a translation  *)
draw(bitmap, path, tx, ty, w, h) ==
  bitmap \cup {px \in Touched(CoverPath(path, tx, ty)) : OnSurface(px, w, h)}

(* ctx.clearRect(0, 0, ctx.canvas.width, ctx.canvas.height) *)
clearRect(bitmap) == {}

(* pixels() that draws on the scratch surface as it finds it.              *)
pixelsKeepBefore(h, s, scratch) ==
  LET drawn == draw(scratch, PathOf(h, s), 0, 0, ScratchW, ScratchH)
  IN  [pixels |-> drawn, offscreen |-> clearRect(drawn)]

(* pixels() that leaves the drawing on the scratch surface.                *)
pixelsLeaveDrawn(h, s, scratch) ==
  LET drawn == draw(clearRect(scratch), PathOf(h, s), 0, 0, ScratchW, ScratchH)
  IN  [pixels |-> drawn, offscreen |-> drawn]

(* this.pixels(): the scratch surface is cleared, the shape drawn, read    *)
(* back, and the surface cleared again.                                    *)
pixels(h, s, scratch) ==
  LET drawn == draw(clearRect(scratch), PathOf(h, s), 0, 0, ScratchW, ScratchH)
  IN  [pixels |-> drawn, offscreen |-> clearRect(drawn)]

(* xmin + xmax and ymin + ymax of the on pixels: twice the centre (cx, cy) *)
(* of their bounding box; NaN when no pixel is on.                         *)
Centre2(bitmap) ==
  IF bitmap = {} THEN [nan |-> TRUE]
  ELSE LET xs == {px[1] : px \in bitmap}
           ys == {px[2] : px \in bitmap}
       IN  [nan |-> FALSE,
            x |-> (CHOOSE x \in xs : \A o \in xs : x <= o)
                  + (CHOOSE x \in xs : \A o \in xs : x >= o),
            y |-> (CHOOSE y \in ys : \A o \in ys : y <= o)
                  + (CHOOSE y \in ys : \A o \in ys : y >= o)]

(* tCtx.drawImage(image, dx, dy) with (dx, dy) in half pixels: every on    *)
(* pixel of the image lands on the pixels it overlaps.                     *)
drawImage(dest, image, dx, dy, w, h) ==
  dest \cup {px \in UNION {{<<(2 * s[1] + dx + i) \div 2, (2 * s[2] + dy + j) \div 2>> :
                             i \in {0, 1}, j \in {0, 1}} : s \in image} :
               OnSurface(px, w, h)}

RECURSIVE stamp(_, _, _)
(* The loop of sum: the indices whose entry of this.pixels() is true, in   *)
(* increasing order, each drawing `that` translated to its pixel.          *)
stamp(on, that, scratch) ==
  IF on = {} THEN scratch
  ELSE LET idx == CHOOSE i \in on : \A o \in on : i <= o
           x == idx % ScratchW
           y == idx \div ScratchW
       IN  stamp(on \ {idx}, that, draw(scratch, that, 2 * x, 2 * y, ScratchW, ScratchH))

(* The end of sum: the scratch surface is drawn on the destination with    *)
(* its bounding box centred; drawImage with a NaN offset draws nothing.    *)
sumStamped(dest, scratch) ==
  LET c == Centre2(scratch)
  IN  [dest |-> IF c.nan THEN dest
                ELSE drawImage(dest, scratch, DestW - c.x, DestH - c.y, DestW, DestH),
       offscreen |-> scratch]

(* The loop of sum over px = this.pixels(), then its end.                  *)
sumOf(px, that, dest) ==
  sumStamped(dest, stamp({q[2] * ScratchW + q[1] : q \in px.pixels}, that, px.offscreen))

(* this.sum(that, tCtx, color) on a destination of DestW x DestH: the      *)
(* destination and the scratch surface afterwards.                         *)
sum(h, this, that, dest, offscreenBefore) ==
  sumOf(pixels(h, this, offscreenBefore), PathOf(h, that), dest)

(* this.drawAlwaysCentered(tCtx, false, color): translate with a NaN       *)
(* argument leaves the transform as it is.                                 *)
drawCentredOn(path, dest, px) ==
  LET c == Centre2(px.pixels)
  IN  [dest |-> draw(dest, path, IF c.nan THEN 0 ELSE DestW - c.x,
                     IF c.nan THEN 0 ELSE DestH - c.y, DestW, DestH),
       offscreen |-> px.offscreen]

drawAlwaysCentered(h, this, dest, offscreenBefore) ==
  drawCentredOn(PathOf(h, this), dest, pixels(h, this, offscreenBefore))

(* IEEE 754 double precision for the quotient of two positive integers    *)
(* below 128: the double nearest n / d, ties to even, as                   *)
(* [e, hi, mid, lo] with value (hi * 2^48 + mid * 2^24 + lo) * 2^(e - 52), *)
(* hi in 16..31 and mid, lo below 2^24 (53 significant bits).              *)
Chunk == 2 ^ 24

(* The exponent e with 2^e <= n / d < 2^(e + 1).                           *)
Exponent(n, d) ==
  IF n >= d THEN CHOOSE e \in 0..7 : d * 2 ^ e <= n /\ n < d * 2 ^ (e + 1)
  ELSE -(CHOOSE k \in 1..7 : d <= n * 2 ^ k /\ n * 2 ^ k < 2 * d)

(* The 53 leading bits of num / den, where 1 <= num / den < 2, and whether *)
(* what is left of the quotient is below, at or above half a unit in the   *)
(* last place.                                                             *)
Significand(num, den) ==
  LET hi == (num * 16) \div den
      r1 == (num * 16) % den
      mid == (r1 * Chunk) \div den
      r2 == (r1 * Chunk) % den
      lo == (r2 * Chunk) \div den
      r3 == (r2 * Chunk) % den
  IN  [hi |-> hi, mid |-> mid, lo |-> lo,
       up |-> 2 * r3 > den \/ (2 * r3 = den /\ lo % 2 = 1)]

(* Rounding to nearest, ties to even, with the carry.                      *)
Rounded(e, sig) ==
  IF ~sig.up THEN [e |-> e, hi |-> sig.hi, mid |-> sig.mid, lo |-> sig.lo]
  ELSE IF sig.lo + 1 < Chunk THEN [e |-> e, hi |-> sig.hi, mid |-> sig.mid, lo |-> sig.lo + 1]
  ELSE IF sig.mid + 1 < Chunk THEN [e |-> e, hi |-> sig.hi, mid |-> sig.mid + 1, lo |-> 0]
  ELSE IF sig.hi + 1 < 32 THEN [e |-> e, hi |-> sig.hi + 1, mid |-> 0, lo |-> 0]
  ELSE [e |-> e + 1, hi |-> 16, mid |-> 0, lo |-> 0]

(* n / d in double arithmetic, n and d positive.                           *)
Quotient(n, d) ==
  LET e == Exponent(n, d)
  IN  IF e >= 0 THEN Rounded(e, Significand(n, d * 2 ^ e))
      ELSE Rounded(e, Significand(n * 2 ^ (-e), d))

(* x <= y on positive doubles.                                             *)
DoubleLeq(x, y) ==
  \/ x.e < y.e
  \/ /\ x.e = y.e
     /\ \/ x.hi < y.hi
        \/ x.hi = y.hi /\ x.mid < y.mid
        \/ x.hi = y.hi /\ x.mid = y.mid /\ x.lo <= y.lo

(* The literal 0.1: the double nearest one tenth, 0x3FB999999999999A.      *)
Tenth == Quotient(1, 10)

(* difference / targetC <= 0.1 with NaN (0 / 0) compared as true.          *)
passesNaN(difference, targetC) ==
  IF targetC = 0 THEN difference = 0
  ELSE IF difference = 0 THEN TRUE
  ELSE DoubleLeq(Quotient(difference, targetC), Tenth)

(* difference / targetC < 0.1 *)
passesStrictly(difference, targetC) ==
  IF targetC = 0 THEN FALSE
  ELSE IF difference = 0 THEN TRUE
  ELSE ~DoubleLeq(Tenth, Quotient(difference, targetC))

(* difference / targetC <= 0.1 in double arithmetic: the quotient is NaN   *)
(* for 0 / 0 and Infinity for a positive difference over 0, and no         *)
(* comparison with either is true; 0 over a positive count is 0.           *)
passes(difference, targetC) ==
  IF targetC = 0 THEN FALSE
  ELSE IF difference = 0 THEN TRUE
  ELSE DoubleLeq(Quotient(difference, targetC), Tenth)

(* compare(a, b, target): one fresh surface, cleared between the drawing   *)
(* of the target and the sum.                                              *)
(* The counting loop of compare and its result, s being what a.sum(b) drew *)
(* and t what target.drawAlwaysCentered drew.                              *)
compareSummed(s, t) ==
  LET sumC == Cardinality(s.dest)
      targetC == Cardinality(t.dest)
      bothC == Cardinality(s.dest \cap t.dest)
      difference == sumC + targetC - 2 * bothC
  IN  [result |-> passes(difference, targetC), sumC |-> sumC, targetC |-> targetC,
       bothC |-> bothC, offscreen |-> s.offscreen]

compare(h, a, b, target, offscreenBefore) ==
  LET t == drawAlwaysCentered(h, target, {}, offscreenBefore)
  IN  compareSummed(sum(h, a, b, {}, t.offscreen), t)

----------------------------------------------------------------------------
(* sum and compare as functions of their arguments: the three slots hold   *)
(* shapes from a small set and the methods are called in any order, so a   *)
(* call may find on the scratch surface what the call before it left.      *)

Pt(x, y) == [type |-> "point", x |-> Num(x), y |-> Num(y)]

Rect(x1, y1, x2, y2) ==
  [type |-> "polygon",
   points |-> << <<Num(x1), Num(y1)>>, <<Num(x2), Num(y1)>>,
                 <<Num(x2), Num(y2)>>, <<Num(x1), Num(y2)>> >>]

Seg(x1, y1, x2, y2) ==
  [type |-> "line", x1 |-> Num(x1), y1 |-> Num(y1), x2 |-> Num(x2), y2 |-> Num(y2)]

(* Nothing; a point; a point above the surface (as a click near the top    *)
(* edge snaps to y = -10); three points of which one is above the surface, *)
(* and three of which one is left of it; a segment; and a                  *)
(* 3 x 3 square with one, two and three more pixels below it (10, 11 and   *)
(* 12 pixels in one 3 x 5 box).                                            *)
RasterShapes ==
  { <<>>,
    <<Pt(0, 0)>>,
    <<Pt(0, -1), Pt(1, 0), Pt(2, 0)>>,
    <<Pt(-1, 0), Pt(0, 1), Pt(0, 2)>>,
    <<Pt(0, -1)>>,
    <<Seg(0, 1, 2, 1)>>,
    <<Rect(0, 0, 3, 3), Pt(1, 4)>>,
    <<Rect(0, 0, 3, 3), Pt(1, 4), Pt(1, 3)>>,
    <<Rect(0, 0, 3, 3), Pt(1, 4), Pt(1, 3), Pt(0, 3)>> }

(* The targets: nothing, a point above the surface, a point, and the       *)
(* shape of 10 pixels.                                                     *)
RasterTargets ==
  { <<>>,
    <<Pt(0, -1)>>,
    <<Pt(0, 0)>>,
    <<Rect(0, 0, 3, 3), Pt(1, 4)>> }

RasterInit ==
  /\ \E a \in RasterShapes, b \in RasterShapes, target \in RasterTargets :
        Is([Constructed EXCEPT !.arrays[leftShape] = a, !.arrays[rightShape] = b,
                               !.arrays[sumShape] = target])
  /\ NoRun
  /\ ApiIdle
  /\ SnapIdle
  /\ RasterIdle

(* leftShape.sum(rightShape, ctx, 'black') on a cleared surface *)
CallSumAB ==
  \E r \in {sum(Heap, leftShape, rightShape, {}, offscreen)} :
      /\ drawnAB' = [done |-> TRUE, dest |-> r.dest]
      /\ offscreen' = r.offscreen
      /\ lastRaster' = [op |-> "sum", this |-> leftShape, that |-> rightShape,
                        before |-> offscreen]
      /\ UNCHANGED <<drawnBA, heapVars, pageVars, apiCall, snapVars>>

(* rightShape.sum(leftShape, ctx, 'black') on a cleared surface *)
CallSumBA ==
  \E r \in {sum(Heap, rightShape, leftShape, {}, offscreen)} :
      /\ drawnBA' = [done |-> TRUE, dest |-> r.dest]
      /\ offscreen' = r.offscreen
      /\ lastRaster' = [op |-> "sum", this |-> rightShape, that |-> leftShape,
                        before |-> offscreen]
      /\ UNCHANGED <<drawnAB, heapVars, pageVars, apiCall, snapVars>>

(* compare(leftShape, rightShape, sumShape) *)
CallCompare ==
  \E r \in {compare(Heap, leftShape, rightShape, sumShape, offscreen)} :
      /\ offscreen' = r.offscreen
      /\ lastRaster' = [op |-> "compare", result |-> r.result, sumC |-> r.sumC,
                        targetC |-> r.targetC, bothC |-> r.bothC]
      /\ UNCHANGED <<drawnAB, drawnBA, heapVars, pageVars, apiCall, snapVars>>

CallPixels ==
  \E s \in SlotShapes :
    \E r \in {pixels(Heap, s, offscreen)} :
        /\ offscreen' = r.offscreen
        /\ lastRaster' = [op |-> "pixels", this |-> s, pixels |-> r.pixels,
                          before |-> offscreen]
        /\ UNCHANGED <<drawnAB, drawnBA, heapVars, pageVars, apiCall, snapVars>>

(* s.drawAlwaysCentered(ctx, false, 'black') on a cleared surface *)
CallDrawAlwaysCentered ==
  \E s \in SlotShapes :
    \E r \in {drawAlwaysCentered(Heap, s, {}, offscreen)} :
        /\ offscreen' = r.offscreen
        /\ lastRaster' = [op |-> "drawAlwaysCentered", this |-> s, dest |-> r.dest,
                          before |-> offscreen]
        /\ UNCHANGED <<drawnAB, drawnBA, heapVars, pageVars, apiCall, snapVars>>

RasterNext ==
  \/ CallSumAB
  \/ CallSumBA
  \/ CallCompare
  \/ CallPixels
  \/ CallDrawAlwaysCentered

SpecRaster == RasterInit /\ [][RasterNext]_vars

----------------------------------------------------------------------------
(* The pixels that a shape covers, drawn untranslated on an unbounded      *)
(* surface.                                                                *)
Occupancy(path) == Touched(CoverPath(path, 0, 0))

(* The pixels of the scratch surface that some on pixel q of a's bitmap    *)
(* (a drawn on the scratch surface) reaches with b translated by q.        *)
UnionOfStamps(a, b) ==
  {p \in {<<q[1] + r[1], q[2] + r[2]>> :
            q \in {o \in Occupancy(a) : OnSurface(o, ScratchW, ScratchH)},
            r \in Occupancy(b)} :
     OnSurface(p, ScratchW, ScratchH)}

(* C1: after A.sum(B) the scratch surface holds exactly the union, over    *)
(* the on pixels of A's bitmap, of B translated to that pixel and clipped  *)
(* to the surface: every stamp is kept and nothing else is on, whatever    *)
(* the call before left there.                                             *)
C1_SumIsUnionOfStamps ==
  lastRaster.op = "sum" =>
    offscreen = UnionOfStamps(PathOf(Heap, lastRaster.this), PathOf(Heap, lastRaster.that))

(* A sum of several stamps of a shape of several pixels, called when the   *)
(* scratch surface held pixels that are not part of the result.            *)
C1_Witness ==
  /\ lastRaster.op = "sum"
  /\ Cardinality({q \in Occupancy(PathOf(Heap, lastRaster.this)) :
                    OnSurface(q, ScratchW, ScratchH)}) >= 2
  /\ Cardinality(Occupancy(PathOf(Heap, lastRaster.that))) >= 2
  /\ Cardinality(offscreen) > Cardinality(Occupancy(PathOf(Heap, lastRaster.that)))
  /\ lastRaster.before \ offscreen # {}

(* C2: with a target of at least one pixel, compare returns true exactly   *)
(* when ten times the difference is at most the target count, the ratio    *)
(* of exactly one tenth included.                                          *)
C2_PassIffWithinTenth ==
  (lastRaster.op = "compare" /\ lastRaster.targetC > 0) =>
    (lastRaster.result <=>
       10 * (lastRaster.sumC + lastRaster.targetC - 2 * lastRaster.bothC)
         <= lastRaster.targetC)

(* A comparison whose ratio is exactly one tenth, and which passed.        *)
C2_Witness ==
  /\ lastRaster.op = "compare"
  /\ lastRaster.targetC > 0
  /\ 10 * (lastRaster.sumC + lastRaster.targetC - 2 * lastRaster.bothC)
       = lastRaster.targetC
  /\ lastRaster.result

(* C3: compare returns false whenever the target has no pixel on.          *)
C3_EmptyTargetNeverPasses ==
  (lastRaster.op = "compare" /\ lastRaster.targetC = 0) => ~lastRaster.result

(* A comparison of an empty sum with an empty target (0 / 0).              *)
C3_Witness ==
  /\ lastRaster.op = "compare"
  /\ lastRaster.targetC = 0
  /\ lastRaster.sumC = 0
  /\ ~lastRaster.result

(* C4: sum(A, B) and sum(B, A) draw the same pixels on a cleared surface.  *)
C4_SumCommutes ==
  (drawnAB.done /\ drawnBA.done) => drawnAB.dest = drawnBA.dest

(* C14: whenever pixels, drawAlwaysCentered or sum returns, the scratch    *)
(* surface has no pixel on.                                                *)
C14_ScratchLeftClear ==
  lastRaster.op \in {"pixels", "drawAlwaysCentered", "sum"} => offscreen = {}

(* C17: what pixels reads back, what drawAlwaysCentered and sum draw, what *)
(* sum leaves on the scratch surface and what compare returns are what     *)
(* the same call gives on a scratch surface that was never used.           *)
C17_NoCallHistory ==
  /\ lastRaster.op = "pixels" =>
       lastRaster.pixels = pixels(Heap, lastRaster.this, {}).pixels
  /\ lastRaster.op = "drawAlwaysCentered" =>
       lastRaster.dest = drawAlwaysCentered(Heap, lastRaster.this, {}, {}).dest
  /\ lastRaster.op = "sum" =>
       offscreen = sum(Heap, lastRaster.this, lastRaster.that, {}, {}).offscreen
  /\ lastRaster.op = "compare" =>
       lastRaster.result = compare(Heap, leftShape, rightShape, sumShape, {}).result
  /\ drawnAB.done => drawnAB.dest = sum(Heap, leftShape, rightShape, {}, {}).dest
  /\ drawnBA.done => drawnBA.dest = sum(Heap, rightShape, leftShape, {}, {}).dest

(* pixels() of a shape with pixels, called when the scratch surface held   *)
(* pixels (left by a sum) that are not pixels of that shape.               *)
C17_Witness ==
  /\ lastRaster.op = "pixels"
  /\ lastRaster.pixels # {}
  /\ lastRaster.before \ lastRaster.pixels # {}

====
